---- MODULE Spec2Model ----
(***************************************************************************)
(* A model of the HiRAG context manager (Rust-HiRAG):                      *)
(*   - the circuit breaker        (src/src/vector_db/circuit_breaker.rs)   *)
(*   - the L1 cache and the write operations of HiRAGManagerV2             *)
(*                                (src/src/hirag/manager_v2.rs)            *)
(*   - the retrieval pipeline     (manager_v2.rs, retriever.rs, ranker.rs) *)
(* Every subsystem has its own specification over its own variables; the   *)
(* variables of the other subsystems stay at their initial value.          *)
(***************************************************************************)
EXTENDS Integers, Sequences, FiniteSets, TLC

(***************************************************************************)
(* Bounds of the model.                                                    *)
(***************************************************************************)
\* callers of the breaker: tasks sharing one Arc<CircuitBreaker>
NumProcs == 2
\* the monotonic clock (Instant) runs from 0 to MaxTime
MaxTime == 4
\* total_calls and total_failures are capped at these values
MaxCalls == 4
MaxFailures == 5
\* Duration `timeout` of the breaker, in clock ticks
OpenTimeout == 2
\* ids Uuid::new_v4 hands out: 1..MaxItems
MaxItems == 3
\* config.l1_size
L1Size == 2
\* the wall clock (Utc::now().timestamp(), in seconds) runs from 0 to MaxWall
MaxWall == 2
\* ids of the items a retrieval can meet: 1..MaxCtx
MaxCtx == 3
\* points a vector search returns (the code asks for at most 100)
MaxHits == 2
\* token_count of an item: 1..MaxTokenCount
MaxTokenCount == 2
\* request.max_tokens: 0..MaxTokens
MaxTokens == 3
\* MAX_TEXT_LENGTH of the validator, 8192 bytes in the code
MAX_TEXT_LENGTH == 2
\* length of request.levels: 0..MaxLevels
MaxLevels == 2
\* contexts in a list given to rank_contexts: 0..MaxRanked
MaxRanked == 2
\* tasks that wait on a ShutdownNotifier: 1..NumSubscribers
NumSubscribers == 3
\* calls of ShutdownCoordinator::shutdown
MaxShutdowns == 2
\* validate_embedding_config: max_retries is at most 10
MAX_RETRIES == 10
\* texts given to the embedding clients: 1..MaxTexts
MaxTexts == 2
\* length of the slice given to embed_batch, and config.batch_size: up to MaxBatch
MaxBatch == 2
\* config.max_retries: 0..MaxRetries
MaxRetries == 2
\* calls made to an embedding client
MaxEmbCalls == 3
\* a vector length other than the one of the default model
OtherDimension == 768
\* contexts available in a tier: 0..MaxAvailable
MaxAvailable == 2
\* config.hirag.l2_ttl_secs and l3_ttl_secs (3600 and 86400 by default), in
\* ticks of the wall clock
l2_ttl_secs == 1
l3_ttl_secs == 2
\* `limit` of the search of a GC cycle (1000 in the code) and BATCH_SIZE of its
\* deletions (100 in the code), scaled to the number of ids
SearchLimit == 2
BATCH_SIZE == 1

(***************************************************************************)
(* Configuration of the breaker, as in the tests of circuit_breaker.rs.    *)
(***************************************************************************)
failure_threshold == 3
success_threshold == 2

(***************************************************************************)
(* Defaults of the configuration (config/mod.rs). Scores, weights and      *)
(* allocations are f32 in the code and thousandths here: Scale is 1.0.     *)
(***************************************************************************)
Scale == 1000
l1_allocation == 300
l2_allocation == 400
l3_allocation == 300
similarity_weight == 500
recency_weight == 200
level_weight == 200
frequency_weight == 100
default_vector_size == 1024

Procs == 1..NumProcs
NoTime == -1

VARIABLES
    \* ---- CircuitBreaker fields
    state,              \* CircuitState: "Closed" | "Open" | "HalfOpen"
    failure_count,      \* AtomicUsize
    success_count,      \* AtomicUsize
    last_failure_time,  \* Option<Instant>: NoTime is None
    total_calls,        \* AtomicU64
    total_failures,     \* AtomicU64
    now,                \* the monotonic clock read by Instant::now / elapsed
    \* ---- per caller: position in the method it runs and its locals
    cb_pc,              \* the statement the caller is at
    cb_seen,            \* `let state = *self.state.read().await`
    cb_ret,             \* the last result of allow_request: "true" | "false" | "none"
    lft_guard,          \* callers holding the read guard of last_failure_time
    \* ---- history of the calls, to state the claims
    since_success,      \* record_failure calls made in Closed since the last success there
    probe_window,       \* TRUE from the Open->HalfOpen step until an outcome is recorded
    window_calls,       \* allow_request calls returned inside the probe window
    window_admits,      \* ... of which returned true
    opened_at,          \* the clock when the opening call recorded the opening
    open_since,         \* the clock when the state last went from another state to Open
    ho_successes        \* record_success calls made in HalfOpen since it was entered

cbVars == <<state, failure_count, success_count, last_failure_time, total_calls,
            total_failures, now, cb_pc, cb_seen, cb_ret, lft_guard,
            since_success, probe_window, window_calls, window_admits,
            opened_at, open_since, ho_successes>>

VARIABLES
    \* ---- the VectorStore behind HiRAGManagerV2
    coll_exists,        \* level -> whether the collection of the level exists
    points,             \* level -> id -> payload.timestamp of the point, or Absent
    vector_size,        \* config.vector_db.vector_size, the length of the collections' vectors
    \* ---- HiRAGManagerV2 fields
    l1_cache,           \* DashMap<Uuid, Context>: id -> timestamp, or Absent
    l1_cache_size,      \* AtomicUsize
    wall,               \* the wall clock read by Utc::now()
    next_id,            \* the next id Uuid::new_v4 returns
    \* ---- per caller: the method it runs, its position and its locals
    mgr,
    \* ---- history of the calls, to state the claims
    only_ingests        \* TRUE while store_context(Immediate) is the only method called

mgrVars == <<coll_exists, points, vector_size, l1_cache, l1_cache_size, wall, next_id,
             mgr, only_ingests>>

VARIABLES
    \* ---- configuration and stored texts met by retrieve_context
    rt_manager,         \* the ContextManager: "HiRAGManager" | "HiRAGManagerV2"
    rt_alloc,           \* config.retrieval_strategy: <<l1, l2, l3>> allocation
    rt_tokens,          \* id -> token_estimator.estimate(text of the item)
    \* ---- the retrieve_context call: its request, position and locals
    rt_pc,              \* "idle" | "called" | "levels" | "join" | "done"
    rt_query,           \* request.query, until it is given to embed_single
    rt_max_tokens,      \* request.max_tokens
    rt_request_levels,  \* request.levels
    rt_levels,          \* `levels`: the levels still to visit
    rt_tasks,           \* `tasks`: the levels of the spawned searches, in order
    rt_all,             \* `all_contexts`
    rt_cache_hits,      \* `cache_hits`
    rt_searched,        \* `total_searched`
    rt_res,             \* the result: "none" | "ok" | an error
    rt_response,        \* the ContextResponse of an "ok" result
    \* ---- history of the call, to state the claims
    rt_failed,          \* the levels whose search failed or whose task did not join
    rt_answers,         \* the contexts of the tiers that answered, tier after tier
    rt_l1,              \* the L1 cache as get_l1_contexts last read it, newest first
    rt_used,            \* level -> the `max_tokens` its read was given, or NoAllocation
    rt_empty,           \* the levels whose read found no context at all
    rt_embed_requests   \* the embed_single calls the call has made

rtVars == <<rt_manager, rt_alloc, rt_tokens, rt_pc, rt_max_tokens, rt_request_levels,
            rt_levels, rt_tasks, rt_all, rt_cache_hits, rt_searched, rt_res,
            rt_response, rt_failed, rt_answers, rt_l1, rt_used, rt_empty,
            rt_query, rt_embed_requests>>
rtRequest == <<rt_query, rt_embed_requests>>

VARIABLES
    \* ---- the embedding client and its configuration
    emb_client,         \* "EmbeddingClient" | "EmbeddingClientV2"
    emb_max_retries,    \* config.max_retries
    emb_batch_size,     \* config.batch_size
    emb_breaker,        \* circuit_breaker.is_some()
    emb_cache_on,       \* cache.is_some()
    emb_cache,          \* EmbeddingCache: key -> embedding, or NoEmbedding
    \* ---- the call in progress: its position and locals
    emb_pc,             \* the statement the call is at
    emb_op,             \* "none" | "embed_single" | "embed_batch"
    emb_texts,          \* the argument: the texts to embed
    emb_offset,         \* the texts of the chunks already done (V2 embed_batch)
    emb_chunk,          \* `chunk`
    emb_request,        \* `uncached_texts`, the input of the EmbeddingRequest
    emb_indices,        \* `uncached_indices`
    emb_partial,        \* `batch_results` (V2) / `results` (v1)
    emb_results,        \* `results` (V2)
    emb_attempts,       \* `attempts`
    emb_last_error,     \* `last_error` (v1)
    emb_outcome,        \* what the last send met
    emb_data,           \* response.data
    emb_res,            \* the result: "none" | "ok" | an error | a panic
    emb_out,            \* the vectors of an "ok" result
    \* ---- history of the calls, to state the claims
    emb_calls,          \* calls begun
    emb_sent,           \* HTTP requests sent by the call in progress
    emb_failed_run,     \* failed attempts in a row: transport error or non-OK status
    emb_known,          \* texts an embed_single returned Ok for, cache entry not expired
    emb_hit_expected,   \* the call is an embed_single of a text of emb_known
    emb_before,         \* <<state, failure_count>> when the last attempt was sent
    emb_after_401       \* an attempt was sent after a 401 in the same call

VARIABLES
    \* ---- a call of ContextRetriever::calculate_dynamic_allocations
    dyn_pc,             \* "idle" | "done"
    dyn_max_tokens,     \* `max_tokens`
    dyn_available,      \* <<l1_available, l2_available, l3_available>>
    dyn_result          \* the returned <<l1_tokens, l2_tokens, l3_tokens>>

dynVars == <<dyn_pc, dyn_max_tokens, dyn_available, dyn_result>>

VARIABLES
    \* ---- one item, from store_context through update_context, with its payload
    up_points,          \* level -> the Qdrant payload of the point, or NoPoint
    up_l1,              \* the entry of the item in the L1 cache, or NoContext
    upd                 \* the call in progress: position, arguments, locals, and
                        \* the store and the cache as they were when it began

upVars == <<up_points, up_l1, upd>>

VARIABLES
    \* ---- BackgroundTaskManager: the cycle in progress, its position and locals
    gc

gcVars == <<gc>>

embConfig == <<emb_client, emb_max_retries, emb_batch_size, emb_breaker, emb_cache_on>>
embLocals == <<emb_pc, emb_op, emb_texts, emb_offset, emb_chunk, emb_request,
               emb_indices, emb_partial, emb_results, emb_attempts, emb_last_error,
               emb_outcome, emb_data, emb_res, emb_out>>
embHistory == <<emb_calls, emb_sent, emb_failed_run, emb_known, emb_hit_expected,
                emb_before, emb_after_401>>
embVars == <<embConfig, emb_cache, embLocals, embHistory>>

VARIABLES rank
rankVars == <<rank>>

VARIABLES sd
sdVars == <<sd>>

VARIABLES rd
readVars == <<rd>>

VARIABLES bo
backoffVars == <<bo>>

vars == <<cbVars, mgrVars, rtVars, embVars, dynVars, upVars, gcVars, rankVars, sdVars, readVars, backoffVars>>
notBackoff == <<cbVars, mgrVars, rtVars, embVars, dynVars, upVars, gcVars, rankVars, sdVars, readVars>>
notRead == <<cbVars, mgrVars, rtVars, embVars, dynVars, upVars, gcVars, rankVars, sdVars, backoffVars>>
notSd == <<cbVars, mgrVars, rtVars, embVars, dynVars, upVars, gcVars, rankVars, readVars, backoffVars>>
notRank == <<cbVars, mgrVars, rtVars, embVars, dynVars, upVars, gcVars, sdVars, readVars, backoffVars>>

\* what the methods of the breaker, of the manager's write path, and of the
\* retrieval leave alone
notCB == <<mgrVars, rtVars, embVars, dynVars, upVars, gcVars, rankVars, sdVars, readVars, backoffVars>>
notMgr == <<cbVars, rtVars, embVars, dynVars, upVars, gcVars, rankVars, sdVars, readVars, backoffVars, vector_size>>
notRt == <<cbVars, mgrVars, embVars, dynVars, upVars, gcVars, rankVars, sdVars, readVars, backoffVars>>
\* the embedding client drives the breaker; it leaves the manager and the retrieval alone
notEmb == <<mgrVars, rtVars, dynVars, upVars, gcVars, rankVars, sdVars, readVars, backoffVars>>
\* calculate_dynamic_allocations reads the strategy and writes nothing
notDyn == <<cbVars, mgrVars, rtVars, embVars, upVars, gcVars, rankVars, sdVars, readVars, backoffVars>>
\* the calls on the one item read the wall clock and write nothing else
notUp == <<cbVars, mgrVars, rtVars, embVars, dynVars, gcVars, rankVars, sdVars, readVars, backoffVars>>
\* a GC cycle has the vector store only: it reads the clock and writes points
notGC == <<cbVars, coll_exists, vector_size, l1_cache, l1_cache_size, wall, next_id,
           mgr, only_ingests, rtVars, embVars, dynVars, upVars, rankVars, sdVars, readVars,
           backoffVars>>

(***************************************************************************)
(* CircuitBreaker                                                          *)
(***************************************************************************)
CircuitState == {"Closed", "Open", "HalfOpen"}

\* CircuitBreaker::new
CBInit ==
    /\ state = "Closed"
    /\ failure_count = 0
    /\ success_count = 0
    /\ last_failure_time = NoTime
    /\ total_calls = 0
    /\ total_failures = 0
    /\ now = 0
    /\ cb_pc = [p \in Procs |-> "idle"]
    /\ cb_seen = [p \in Procs |-> "Closed"]
    /\ cb_ret = [p \in Procs |-> "none"]
    /\ lft_guard = {}
    /\ since_success = 0
    /\ probe_window = FALSE
    /\ window_calls = 0
    /\ window_admits = 0
    /\ opened_at = NoTime
    /\ open_since = NoTime
    /\ ho_successes = 0

CBHistory == <<since_success, probe_window, window_calls, window_admits,
               opened_at, open_since, ho_successes>>
CBFields == <<state, failure_count, success_count, last_failure_time,
              total_calls, total_failures>>

\* `last_failure.elapsed() >= self.config.timeout`
TimeoutElapsedNever(last, t) == FALSE
TimeoutElapsed(last, t) == t - last >= OpenTimeout

\* the arms of allow_request that answer without reading the clock:
\* `CircuitState::Closed => true` and `CircuitState::HalfOpen => true`
ArmResultOneProbe(s) == s = "Closed"
ArmResult(s) == s \in {"Closed", "HalfOpen"}

\* `failures >= self.config.failure_threshold`
ReachesFailureThresholdLate(failures) == failures > failure_threshold
ReachesFailureThreshold(failures) == failures >= failure_threshold

\* `successes >= self.config.success_threshold`
ReachesSuccessThresholdLate(successes) == successes > success_threshold
ReachesSuccessThreshold(successes) == successes >= success_threshold

\* an allow_request call returns r
CBReturn(p, r) ==
    /\ cb_ret' = [cb_ret EXCEPT ![p] = IF r THEN "true" ELSE "false"]
    /\ cb_pc' = [cb_pc EXCEPT ![p] = "idle"]
    /\ lft_guard' = lft_guard \ {p}
    /\ window_calls' = IF probe_window THEN window_calls + 1 ELSE window_calls
    /\ window_admits' = IF probe_window /\ r THEN window_admits + 1 ELSE window_admits
    /\ UNCHANGED <<probe_window, since_success, opened_at, open_since, ho_successes>>

\* allow_request, lines 76-78: count the call, read the state
AllowRequestEnter(p) ==
    /\ cb_pc[p] = "idle"
    /\ total_calls < MaxCalls
    /\ total_calls' = total_calls + 1
    /\ cb_seen' = [cb_seen EXCEPT ![p] = state]
    /\ cb_pc' = [cb_pc EXCEPT ![p] = "ar_match"]
    /\ UNCHANGED <<state, failure_count, success_count, last_failure_time,
                   total_failures, now, cb_ret, lft_guard, CBHistory>>

\* allow_request called on its own: nothing outside the breaker moves
AllowRequestBegin(p) ==
    /\ AllowRequestEnter(p)
    /\ UNCHANGED notCB

\* allow_request, lines 80-82 and 95: the match on the state that was read
AllowRequestMatch(p) ==
    /\ cb_pc[p] = "ar_match"
    /\ IF cb_seen[p] = "Open"
         THEN /\ cb_pc' = [cb_pc EXCEPT ![p] = "ar_read_lft"]
              /\ UNCHANGED <<cb_ret, lft_guard, CBHistory>>
         ELSE CBReturn(p, ArmResult(cb_seen[p]))
    /\ UNCHANGED <<CBFields, now, cb_seen>>
    /\ UNCHANGED notCB

\* allow_request, lines 84-85 and 93: the `if let` reads last_failure_time; its
\* read guard lives until the end of the `if let`
AllowRequestReadLft(p) ==
    /\ cb_pc[p] = "ar_read_lft"
    /\ IF last_failure_time # NoTime /\ TimeoutElapsed(last_failure_time, now)
         THEN /\ cb_pc' = [cb_pc EXCEPT ![p] = "ar_write_state"]
              /\ lft_guard' = lft_guard \cup {p}
              /\ UNCHANGED <<cb_ret, CBHistory>>
         ELSE CBReturn(p, FALSE)
    /\ UNCHANGED <<CBFields, now, cb_seen>>
    /\ UNCHANGED notCB

\* allow_request, line 87
AllowRequestWriteState(p) ==
    /\ cb_pc[p] = "ar_write_state"
    /\ state' = "HalfOpen"
    /\ cb_pc' = [cb_pc EXCEPT ![p] = "ar_store"]
    /\ probe_window' = TRUE
    /\ window_calls' = 0
    /\ window_admits' = 0
    /\ ho_successes' = 0
    /\ UNCHANGED <<failure_count, success_count, last_failure_time, total_calls,
                   total_failures, now, cb_seen, cb_ret, lft_guard, since_success,
                   opened_at, open_since>>
    /\ UNCHANGED notCB

\* allow_request, lines 88-90
AllowRequestStore(p) ==
    /\ cb_pc[p] = "ar_store"
    /\ success_count' = 0
    /\ CBReturn(p, TRUE)
    /\ UNCHANGED <<state, failure_count, last_failure_time, total_calls,
                   total_failures, now, cb_seen>>
    /\ UNCHANGED notCB

AllowRequest(p) ==
    \/ AllowRequestBegin(p)
    \/ AllowRequestMatch(p)
    \/ AllowRequestReadLft(p)
    \/ AllowRequestWriteState(p)
    \/ AllowRequestStore(p)

\* record_success, line 101: read the state, pick the arm of the match
RecordSuccessEnter(p) ==
    /\ cb_pc[p] = "idle"
    /\ cb_seen' = [cb_seen EXCEPT ![p] = state]
    /\ cb_pc' = [cb_pc EXCEPT ![p] =
                   CASE state = "Closed" -> "rs_reset"
                     [] state = "HalfOpen" -> "rs_fetch_add"
                     [] OTHER -> "idle"]
    /\ probe_window' = FALSE
    /\ ho_successes' = IF state = "HalfOpen" THEN ho_successes + 1 ELSE ho_successes
    /\ UNCHANGED <<CBFields, now, cb_ret, lft_guard, since_success,
                   window_calls, window_admits, opened_at, open_since>>

\* record_success called on its own: nothing outside the breaker moves
RecordSuccessBegin(p) ==
    /\ RecordSuccessEnter(p)
    /\ UNCHANGED notCB

\* record_success, line 106
RecordSuccessReset(p) ==
    /\ cb_pc[p] = "rs_reset"
    /\ failure_count' = 0
    /\ since_success' = 0
    /\ cb_pc' = [cb_pc EXCEPT ![p] = "idle"]
    /\ UNCHANGED <<state, success_count, last_failure_time, total_calls, total_failures,
                   now, cb_seen, cb_ret, lft_guard, probe_window, window_calls,
                   window_admits, opened_at, open_since, ho_successes>>
    /\ UNCHANGED notCB

\* record_success, lines 109-111
RecordSuccessFetchAdd(p) ==
    /\ cb_pc[p] = "rs_fetch_add"
    /\ success_count' = success_count + 1
    /\ cb_pc' = [cb_pc EXCEPT ![p] =
                   IF ReachesSuccessThreshold(success_count + 1)
                     THEN "rs_write_closed" ELSE "idle"]
    /\ UNCHANGED <<state, failure_count, last_failure_time, total_calls, total_failures,
                   now, cb_seen, cb_ret, lft_guard, CBHistory>>
    /\ UNCHANGED notCB

\* record_success, line 113
RecordSuccessWriteClosed(p) ==
    /\ cb_pc[p] = "rs_write_closed"
    /\ state' = "Closed"
    /\ since_success' = 0
    /\ cb_pc' = [cb_pc EXCEPT ![p] = "rs_clear_failures"]
    /\ UNCHANGED <<failure_count, success_count, last_failure_time, total_calls,
                   total_failures, now, cb_seen, cb_ret, lft_guard, probe_window,
                   window_calls, window_admits, opened_at, open_since, ho_successes>>
    /\ UNCHANGED notCB

\* record_success, line 114
RecordSuccessClearFailures(p) ==
    /\ cb_pc[p] = "rs_clear_failures"
    /\ failure_count' = 0
    /\ cb_pc' = [cb_pc EXCEPT ![p] = "rs_clear_successes"]
    /\ UNCHANGED <<state, success_count, last_failure_time, total_calls, total_failures,
                   now, cb_seen, cb_ret, lft_guard, CBHistory>>
    /\ UNCHANGED notCB

\* record_success, line 115
RecordSuccessClearSuccesses(p) ==
    /\ cb_pc[p] = "rs_clear_successes"
    /\ success_count' = 0
    /\ cb_pc' = [cb_pc EXCEPT ![p] = "idle"]
    /\ UNCHANGED <<state, failure_count, last_failure_time, total_calls, total_failures,
                   now, cb_seen, cb_ret, lft_guard, CBHistory>>
    /\ UNCHANGED notCB

RecordSuccess(p) ==
    \/ RecordSuccessBegin(p)
    \/ RecordSuccessReset(p)
    \/ RecordSuccessFetchAdd(p)
    \/ RecordSuccessWriteClosed(p)
    \/ RecordSuccessClearFailures(p)
    \/ RecordSuccessClearSuccesses(p)

\* record_failure, lines 125-129: count the failure, read the state
RecordFailureEnter(p) ==
    /\ cb_pc[p] = "idle"
    /\ total_failures < MaxFailures
    /\ total_failures' = total_failures + 1
    /\ cb_seen' = [cb_seen EXCEPT ![p] = state]
    /\ cb_pc' = [cb_pc EXCEPT ![p] =
                   CASE state = "Closed" -> "rf_fetch_add"
                     [] state = "HalfOpen" -> "rf_write_open"
                     [] OTHER -> "idle"]
    /\ since_success' = IF state = "Closed" THEN since_success + 1 ELSE since_success
    /\ probe_window' = FALSE
    /\ UNCHANGED <<state, failure_count, success_count, last_failure_time, total_calls,
                   now, cb_ret, lft_guard, window_calls, window_admits,
                   opened_at, open_since, ho_successes>>

\* record_failure called on its own: nothing outside the breaker moves
RecordFailureBegin(p) ==
    /\ RecordFailureEnter(p)
    /\ UNCHANGED notCB

\* record_failure, lines 131-133
RecordFailureFetchAdd(p) ==
    /\ cb_pc[p] = "rf_fetch_add"
    /\ failure_count' = failure_count + 1
    /\ cb_pc' = [cb_pc EXCEPT ![p] =
                   IF ReachesFailureThreshold(failure_count + 1)
                     THEN "rf_write_open" ELSE "idle"]
    /\ UNCHANGED <<state, success_count, last_failure_time, total_calls, total_failures,
                   now, cb_seen, cb_ret, lft_guard, CBHistory>>
    /\ UNCHANGED notCB

\* record_failure, lines 135 and 142
RecordFailureWriteOpen(p) ==
    /\ cb_pc[p] = "rf_write_open"
    /\ state' = "Open"
    /\ open_since' = IF state = "Open" THEN open_since ELSE now
    /\ cb_pc' = [cb_pc EXCEPT ![p] = "rf_write_lft"]
    /\ UNCHANGED <<failure_count, success_count, last_failure_time, total_calls,
                   total_failures, now, cb_seen, cb_ret, lft_guard, since_success,
                   probe_window, window_calls, window_admits, opened_at, ho_successes>>
    /\ UNCHANGED notCB

\* the opening time record_failure stores: `Some(Instant::now())`
OpenedAtNone(t) == NoTime
OpenedAt(t) == t

\* record_failure, lines 136 and 143: the write guard waits for the read guards
RecordFailureWriteLft(p) ==
    /\ cb_pc[p] = "rf_write_lft"
    /\ lft_guard = {}
    /\ last_failure_time' = OpenedAt(now)
    /\ opened_at' = now
    /\ cb_pc' = [cb_pc EXCEPT ![p] =
                   IF cb_seen[p] = "HalfOpen" THEN "rf_store" ELSE "idle"]
    /\ UNCHANGED <<state, failure_count, success_count, total_calls, total_failures,
                   now, cb_seen, cb_ret, lft_guard, since_success, probe_window,
                   window_calls, window_admits, open_since, ho_successes>>
    /\ UNCHANGED notCB

\* what record_failure stores in success_count in the HalfOpen arm
KeepSuccessCount(n) == n
ClearedSuccessCount(n) == 0

\* record_failure, line 144
RecordFailureStore(p) ==
    /\ cb_pc[p] = "rf_store"
    /\ success_count' = ClearedSuccessCount(success_count)
    /\ cb_pc' = [cb_pc EXCEPT ![p] = "idle"]
    /\ UNCHANGED <<state, failure_count, last_failure_time, total_calls, total_failures,
                   now, cb_seen, cb_ret, lft_guard, CBHistory>>
    /\ UNCHANGED notCB

RecordFailure(p) ==
    \/ RecordFailureBegin(p)
    \/ RecordFailureFetchAdd(p)
    \/ RecordFailureWriteOpen(p)
    \/ RecordFailureWriteLft(p)
    \/ RecordFailureStore(p)

\* reset, line 201
ResetBegin(p) ==
    /\ cb_pc[p] = "idle"
    /\ state' = "Closed"
    /\ since_success' = 0
    /\ probe_window' = FALSE
    /\ cb_pc' = [cb_pc EXCEPT ![p] = "reset_failures"]
    /\ UNCHANGED <<failure_count, success_count, last_failure_time, total_calls,
                   total_failures, now, cb_seen, cb_ret, lft_guard,
                   window_calls, window_admits, opened_at, open_since, ho_successes>>
    /\ UNCHANGED notCB

\* reset, line 202
ResetFailures(p) ==
    /\ cb_pc[p] = "reset_failures"
    /\ failure_count' = 0
    /\ cb_pc' = [cb_pc EXCEPT ![p] = "reset_successes"]
    /\ UNCHANGED <<state, success_count, last_failure_time, total_calls, total_failures,
                   now, cb_seen, cb_ret, lft_guard, CBHistory>>
    /\ UNCHANGED notCB

\* reset, line 203
ResetSuccesses(p) ==
    /\ cb_pc[p] = "reset_successes"
    /\ success_count' = 0
    /\ cb_pc' = [cb_pc EXCEPT ![p] = "reset_lft"]
    /\ UNCHANGED <<state, failure_count, last_failure_time, total_calls, total_failures,
                   now, cb_seen, cb_ret, lft_guard, CBHistory>>
    /\ UNCHANGED notCB

\* reset, line 204
ResetLft(p) ==
    /\ cb_pc[p] = "reset_lft"
    /\ lft_guard = {}
    /\ last_failure_time' = NoTime
    /\ cb_pc' = [cb_pc EXCEPT ![p] = "idle"]
    /\ UNCHANGED <<state, failure_count, success_count, total_calls, total_failures,
                   now, cb_seen, cb_ret, lft_guard, CBHistory>>
    /\ UNCHANGED notCB

Reset(p) ==
    \/ ResetBegin(p)
    \/ ResetFailures(p)
    \/ ResetSuccesses(p)
    \/ ResetLft(p)

\* the monotonic clock advances
Tick ==
    /\ now < MaxTime
    /\ now' = now + 1
    /\ UNCHANGED <<CBFields, cb_pc, cb_seen, cb_ret, lft_guard, CBHistory>>
    /\ UNCHANGED notCB

CBStep(p) == AllowRequest(p) \/ RecordSuccess(p) \/ RecordFailure(p) \/ Reset(p)

(***************************************************************************)
(* InputValidator                                                          *)
(***************************************************************************)
\* a text is a sequence of one-byte characters: a letter, a blank, a control
\* character that is not white space
Chars == {"letter", "space", "control"}
is_control(c) == c = "control"
is_whitespace(c) == c = "space"

\* str::trim
RECURSIVE trim_start(_)
trim_start(text) ==
    IF text # <<>> /\ is_whitespace(Head(text)) THEN trim_start(Tail(text)) ELSE text
RECURSIVE trim_end(_)
trim_end(text) ==
    IF text # <<>> /\ is_whitespace(text[Len(text)])
      THEN trim_end(SubSeq(text, 1, Len(text) - 1))
      ELSE text
trim(text) == trim_end(trim_start(text))

\* InputValidator::validate_text: "Ok" or the ValidationError
validate_text_length_only(text) ==
    IF Len(text) > MAX_TEXT_LENGTH THEN "TextTooLong" ELSE "Ok"
validate_text(text) ==
    IF trim(text) = <<>> THEN "EmptyInput"
    ELSE IF Len(text) > MAX_TEXT_LENGTH THEN "TextTooLong"
    ELSE IF \E i \in 1..Len(text) : is_control(text[i]) /\ ~is_whitespace(text[i])
      THEN "InvalidCharacters"
    ELSE "Ok"

\* InputValidator::validate_token_count: "Ok" or the ValidationError
validate_token_count(count, max) ==
    IF count = 0 THEN "InvalidTokenCount"
    ELSE IF count > max THEN "TokenLimitExceeded"
    ELSE "Ok"

\* the texts the callers pass: the empty one, a blank one, a word, one with a
\* control character, one that is too long, one too long with a control
\* character
LongText == [i \in 1..(MAX_TEXT_LENGTH + 1) |-> "letter"]
RequestTexts ==
    {<<>>, <<"space">>, <<"letter">>, <<"control">>, LongText,
     [LongText EXCEPT ![1] = "control"]}

(***************************************************************************)
(* HiRAGManagerV2: the L1 cache and the write operations                   *)
(***************************************************************************)
Ids == 1..MaxItems
Absent == -1

\* the order of the loops over the levels in update_context, delete_context
\* and initialize
Levels == <<"Immediate", "ShortTerm", "LongTerm">>
LevelSet == {"Immediate", "ShortTerm", "LongTerm"}

MgrIdleLocals ==
    [pc |-> "idle", op |-> "none", level |-> "Immediate", id |-> 0, ts |-> 0,
     idx |-> 1, size |-> 0, rm |-> <<>>, res |-> "none",
     inserted |-> FALSE, touched |-> FALSE, len |-> 0,
     text |-> <<>>, validation |-> "Ok", embed_requests |-> 0]

\* the vector lengths an embedding provider returns and a configuration asks for
Dimensions == {OtherDimension, default_vector_size}

\* HiRAGManagerV2::new, then initialize() against an empty vector store
MgrFresh ==
    /\ coll_exists = [l \in LevelSet |-> TRUE]
    /\ points = [l \in LevelSet |-> [i \in Ids |-> Absent]]
    /\ l1_cache = [i \in Ids |-> Absent]
    /\ l1_cache_size = 0
    /\ wall = 0
    /\ next_id = 1
    /\ mgr = [p \in Procs |-> MgrIdleLocals]
    /\ only_ingests = TRUE

\* ... under the default configuration
MgrInit == MgrFresh /\ vector_size = default_vector_size

MgrHistory == <<only_ingests>>

\* DashMap::len
L1Len == Cardinality({i \in Ids : l1_cache[i] # Absent})

\* the caller returns r from the method it runs
MgrDone(p, r) ==
    [MgrIdleLocals EXCEPT !.op = mgr[p].op, !.level = mgr[p].level,
                          !.inserted = mgr[p].inserted, !.touched = mgr[p].touched,
                          !.len = mgr[p].len, !.res = r, !.text = mgr[p].text,
                          !.validation = mgr[p].validation,
                          !.embed_requests = mgr[p].embed_requests]
MgrReturn(p, r) == mgr' = [mgr EXCEPT ![p] = MgrDone(p, r)]

\* a call of the vector store answers Ok only if it got through and the
\* collection is there
StoreAnswers(ok, level) == ok /\ coll_exists[level]

\* store_context lines 213-216, update_context lines 404-407: `?` on the result
\* of insert_points, then the L1 update for the Immediate level only
AfterInsertUnchecked(ok, level) ==
    IF level = "Immediate" THEN "l1_insert" ELSE "done"
AfterInsert(ok, level) ==
    IF ~ok THEN "failed"
    ELSE IF level = "Immediate" THEN "l1_insert" ELSE "done"

\* the dimension store_context expects, line 190
expected_dimension == 1024

\* InputValidator::validate_vector_dimension
validate_vector_dimension(actual, expected) == actual = expected

\* store_context, lines 174-209: validate the text, embed it, check the length
\* of the vector, mint the id, read the clock
StoreContextText(p, text) ==
    /\ mgr[p].pc = "idle"
    /\ \E level \in LevelSet, embedded \in BOOLEAN, len \in Dimensions :
         LET call == [MgrIdleLocals EXCEPT !.op = "store", !.level = level, !.text = text]
         IN
         /\ only_ingests' = (only_ingests /\ level = "Immediate")
         /\ IF validate_text(text) # "Ok"
              THEN /\ mgr' = [mgr EXCEPT ![p] =
                                [call EXCEPT !.res = "validation_error",
                                             !.validation = validate_text(text)]]
                   /\ UNCHANGED next_id
              ELSE IF ~embedded
              THEN /\ mgr' = [mgr EXCEPT ![p] =
                                [call EXCEPT !.res = "embedding_error",
                                             !.embed_requests = 1]]
                   /\ UNCHANGED next_id
              ELSE IF ~validate_vector_dimension(len, expected_dimension)
              THEN /\ mgr' = [mgr EXCEPT ![p] =
                                [call EXCEPT !.len = len, !.embed_requests = 1,
                                             !.res = "validation_error",
                                             !.validation = "InvalidVectorDimension"]]
                   /\ UNCHANGED next_id
              ELSE /\ next_id <= MaxItems
                   /\ mgr' = [mgr EXCEPT ![p] =
                                [call EXCEPT !.pc = "insert", !.id = next_id,
                                             !.ts = wall, !.len = len,
                                             !.embed_requests = 1]]
                   /\ next_id' = next_id + 1
    /\ UNCHANGED <<coll_exists, points, l1_cache, l1_cache_size, wall>>
    /\ UNCHANGED notMgr

\* store_context called with a text that passes validate_text
ValidText == <<"letter">>
StoreContextBegin(p) == StoreContextText(p, ValidText)

\* store_context called with any of the texts
StoreContextAnyText(p) == \E text \in RequestTexts : StoreContextText(p, text)

\* store_context line 213 and update_context line 404: insert_points
InsertPoints(p) ==
    /\ mgr[p].pc = "insert"
    /\ \E ok \in BOOLEAN :
         LET done == StoreAnswers(ok, mgr[p].level)
             next == AfterInsert(done, mgr[p].level)
         IN /\ points' = IF done
                           THEN [points EXCEPT ![mgr[p].level][mgr[p].id] = mgr[p].ts]
                           ELSE points
            /\ mgr' = IF next = "l1_insert"
                        THEN [mgr EXCEPT ![p].inserted = done, ![p].pc = next]
                        ELSE [mgr EXCEPT ![p] =
                                [MgrDone(p, IF next = "failed" THEN "insert_error" ELSE "ok")
                                   EXCEPT !.inserted = done]]
    /\ UNCHANGED <<coll_exists, l1_cache, l1_cache_size, wall, next_id, only_ingests>>
    /\ UNCHANGED notMgr

\* update_l1_cache, line 92
L1Insert(p) ==
    /\ mgr[p].pc = "l1_insert"
    /\ l1_cache' = [l1_cache EXCEPT ![mgr[p].id] = mgr[p].ts]
    /\ mgr' = [mgr EXCEPT ![p].pc = "l1_len", ![p].touched = TRUE]
    /\ UNCHANGED <<coll_exists, points, l1_cache_size, wall, next_id, MgrHistory>>
    /\ UNCHANGED notMgr

\* the method that called update_l1_cache returns Ok
L1Done(p) ==
    /\ MgrReturn(p, "ok")
    /\ UNCHANGED only_ingests

\* update_l1_cache, lines 95-99
L1ReadLen(p) ==
    /\ mgr[p].pc = "l1_len"
    /\ l1_cache_size' = L1Len
    /\ IF L1Len > L1Size
         THEN /\ mgr' = [mgr EXCEPT ![p].pc = "l1_scan", ![p].size = L1Len]
              /\ UNCHANGED MgrHistory
         ELSE L1Done(p)
    /\ UNCHANGED <<coll_exists, points, l1_cache, wall, next_id>>
    /\ UNCHANGED notMgr

\* the orders `entries.sort_by_key(|(_, ts)| *ts)` can leave the entries in: the
\* sort is stable and DashMap::iter yields the entries in an order of its own,
\* so entries of equal timestamp come out in any order
SortedOldestFirst(cache) ==
    LET present == {i \in Ids : cache[i] # Absent}
        n == Cardinality(present)
    IN {o \in [1..n -> present] :
          /\ \A i, j \in 1..n : i # j => o[i] # o[j]
          /\ \A i \in 1..(n - 1) : cache[o[i]] <= cache[o[i + 1]]}

\* `entries.iter().take(current_size - self.config.l1_size)`
ExcessEntriesNone(order, current_size) == <<>>
ExcessEntries(order, current_size) ==
    LET to_remove == current_size - L1Size
        k == IF to_remove < Len(order) THEN to_remove ELSE Len(order)
    IN SubSeq(order, 1, k)

\* update_l1_cache, lines 101-110: collect, sort, pick the entries to remove
L1Scan(p) ==
    /\ mgr[p].pc = "l1_scan"
    /\ \E order \in SortedOldestFirst(l1_cache) :
         mgr' = [mgr EXCEPT ![p].pc = "l1_remove",
                            ![p].rm = ExcessEntries(order, mgr[p].size)]
    /\ UNCHANGED <<coll_exists, points, l1_cache, l1_cache_size, wall, next_id,
                   MgrHistory>>
    /\ UNCHANGED notMgr

\* update_l1_cache, lines 110-116: remove them one by one, store the new length
L1Remove(p) ==
    /\ mgr[p].pc = "l1_remove"
    /\ IF mgr[p].rm # <<>>
         THEN /\ l1_cache' = [l1_cache EXCEPT ![Head(mgr[p].rm)] = Absent]
              /\ mgr' = [mgr EXCEPT ![p].rm = Tail(mgr[p].rm)]
              /\ UNCHANGED <<l1_cache_size, MgrHistory>>
         ELSE /\ l1_cache_size' = L1Len
              /\ L1Done(p)
              /\ UNCHANGED l1_cache
    /\ UNCHANGED <<coll_exists, points, wall, next_id>>
    /\ UNCHANGED notMgr

\* update_context, lines 383-390
UpdateContextBegin(p) ==
    /\ mgr[p].pc = "idle"
    /\ \E id \in Ids :
         mgr' = [mgr EXCEPT ![p] =
                   [MgrIdleLocals EXCEPT !.op = "update", !.pc = "get", !.id = id]]
    /\ only_ingests' = FALSE
    /\ UNCHANGED <<coll_exists, points, l1_cache, l1_cache_size, wall, next_id>>
    /\ UNCHANGED notMgr

\* update_context, lines 390-401 and 426: get_point in the next collection
UpdateContextGet(p) ==
    /\ mgr[p].pc = "get"
    /\ \E ok \in BOOLEAN :
         LET level == Levels[mgr[p].idx]
         IN IF ~StoreAnswers(ok, level)
              THEN MgrReturn(p, "get_error")
              ELSE IF points[level][mgr[p].id] # Absent
                THEN mgr' = [mgr EXCEPT ![p].pc = "insert", ![p].level = level,
                                        ![p].ts = wall]
                ELSE IF mgr[p].idx < Len(Levels)
                  THEN mgr' = [mgr EXCEPT ![p].idx = @ + 1]
                  ELSE MgrReturn(p, "not_found")
    /\ UNCHANGED <<coll_exists, points, l1_cache, l1_cache_size, wall, next_id,
                   MgrHistory>>
    /\ UNCHANGED notMgr

\* delete_context, lines 429-433
DeleteContextBegin(p) ==
    /\ mgr[p].pc = "idle"
    /\ \E id \in Ids :
         mgr' = [mgr EXCEPT ![p] =
                   [MgrIdleLocals EXCEPT !.op = "delete", !.pc = "delete", !.id = id]]
    /\ only_ingests' = FALSE
    /\ UNCHANGED <<coll_exists, points, l1_cache, l1_cache_size, wall, next_id>>
    /\ UNCHANGED notMgr

\* delete_context, lines 433-436: delete_points in the next collection, its
\* result dropped
DeleteContextPoints(p) ==
    /\ mgr[p].pc = "delete"
    /\ \E ok \in BOOLEAN :
         LET level == Levels[mgr[p].idx]
         IN points' = IF StoreAnswers(ok, level)
                        THEN [points EXCEPT ![level][mgr[p].id] = Absent]
                        ELSE points
    /\ mgr' = IF mgr[p].idx < Len(Levels)
                THEN [mgr EXCEPT ![p].idx = @ + 1]
                ELSE [mgr EXCEPT ![p].pc = "delete_l1"]
    /\ UNCHANGED <<coll_exists, l1_cache, l1_cache_size, wall, next_id, MgrHistory>>
    /\ UNCHANGED notMgr

\* delete_context, lines 439-443
DeleteContextL1(p) ==
    /\ mgr[p].pc = "delete_l1"
    /\ l1_cache' = [l1_cache EXCEPT ![mgr[p].id] = Absent]
    /\ l1_cache_size' = Cardinality({i \in Ids : l1_cache'[i] # Absent})
    /\ mgr' = [mgr EXCEPT ![p] = [MgrDone(p, "ok") EXCEPT
                                    !.touched = l1_cache[mgr[p].id] # Absent,
                                    !.id = mgr[p].id]]
    /\ UNCHANGED <<coll_exists, points, wall, next_id, MgrHistory>>
    /\ UNCHANGED notMgr

\* clear_level, lines 446-449
ClearLevelBegin(p) ==
    /\ mgr[p].pc = "idle"
    /\ \E level \in LevelSet :
         mgr' = [mgr EXCEPT ![p] =
                   [MgrIdleLocals EXCEPT !.op = "clear", !.pc = "drop", !.level = level]]
    /\ only_ingests' = FALSE
    /\ UNCHANGED <<coll_exists, points, l1_cache, l1_cache_size, wall, next_id>>
    /\ UNCHANGED notMgr

\* clear_level, line 452: delete_collection, its result dropped
ClearLevelDrop(p) ==
    /\ mgr[p].pc = "drop"
    /\ \E ok \in BOOLEAN :
         IF StoreAnswers(ok, mgr[p].level)
           THEN /\ coll_exists' = [coll_exists EXCEPT ![mgr[p].level] = FALSE]
                /\ points' = [points EXCEPT ![mgr[p].level] = [i \in Ids |-> Absent]]
           ELSE UNCHANGED <<coll_exists, points>>
    /\ mgr' = [mgr EXCEPT ![p].pc = "create"]
    /\ UNCHANGED <<l1_cache, l1_cache_size, wall, next_id, MgrHistory>>
    /\ UNCHANGED notMgr

\* VectorStore::create_collection answers Ok only if it got through and the
\* collection was not there ("will fail if exists", manager_v2.rs line 74)
CreateCollectionAnswersExisting(ok, level) == ok
CreateCollectionAnswers(ok, level) == ok /\ ~coll_exists[level]

\* clear_level, lines 453-456: create_collection fails when the call does not
\* get through and when the collection is (still) there
ClearLevelCreate(p) ==
    /\ mgr[p].pc = "create"
    /\ \E ok \in BOOLEAN :
         IF CreateCollectionAnswers(ok, mgr[p].level)
           THEN /\ coll_exists' = [coll_exists EXCEPT ![mgr[p].level] = TRUE]
                /\ IF mgr[p].level = "Immediate"
                     THEN mgr' = [mgr EXCEPT ![p].pc = "clear_l1"]
                     ELSE MgrReturn(p, "ok")
           ELSE /\ MgrReturn(p, "create_error")
                /\ UNCHANGED coll_exists
    /\ UNCHANGED <<points, l1_cache, l1_cache_size, wall, next_id, MgrHistory>>
    /\ UNCHANGED notMgr

\* clear_level, lines 457-462
ClearLevelL1(p) ==
    /\ mgr[p].pc = "clear_l1"
    /\ l1_cache' = [i \in Ids |-> Absent]
    /\ l1_cache_size' = 0
    /\ mgr' = [mgr EXCEPT ![p] = [MgrDone(p, "ok") EXCEPT !.touched = TRUE]]
    /\ UNCHANGED <<coll_exists, points, wall, next_id, MgrHistory>>
    /\ UNCHANGED notMgr

\* initialize, lines 68-80: create_collection for every level, results dropped
InitializeBegin(p) ==
    /\ mgr[p].pc = "idle"
    /\ mgr' = [mgr EXCEPT ![p] = [MgrIdleLocals EXCEPT !.op = "initialize",
                                                       !.pc = "init_create"]]
    /\ UNCHANGED <<coll_exists, points, l1_cache, l1_cache_size, wall, next_id,
                   MgrHistory>>
    /\ UNCHANGED notMgr

InitializeCreate(p) ==
    /\ mgr[p].pc = "init_create"
    /\ \E ok \in BOOLEAN :
         LET level == Levels[mgr[p].idx]
         IN coll_exists' = IF ok THEN [coll_exists EXCEPT ![level] = TRUE]
                                 ELSE coll_exists
    /\ mgr' = IF mgr[p].idx < Len(Levels)
                THEN [mgr EXCEPT ![p].idx = @ + 1]
                ELSE [mgr EXCEPT ![p] = MgrDone(p, "ok")]
    /\ UNCHANGED <<points, l1_cache, l1_cache_size, wall, next_id, MgrHistory>>
    /\ UNCHANGED notMgr

\* the wall clock advances
WallTick ==
    /\ wall < MaxWall
    /\ wall' = wall + 1
    /\ UNCHANGED <<coll_exists, points, l1_cache, l1_cache_size, next_id, mgr,
                   MgrHistory>>
    /\ UNCHANGED notMgr

MgrStep(p) ==
    \/ StoreContextBegin(p)
    \/ InsertPoints(p)
    \/ L1Insert(p)
    \/ L1ReadLen(p)
    \/ L1Scan(p)
    \/ L1Remove(p)
    \/ UpdateContextBegin(p)
    \/ UpdateContextGet(p)
    \/ DeleteContextBegin(p)
    \/ DeleteContextPoints(p)
    \/ DeleteContextL1(p)
    \/ ClearLevelBegin(p)
    \/ ClearLevelDrop(p)
    \/ ClearLevelCreate(p)
    \/ ClearLevelL1(p)
    \/ InitializeBegin(p)
    \/ InitializeCreate(p)

(***************************************************************************)
(* HiRAGManagerV2::retrieve_context, with ContextRetriever and             *)
(* ContextRanker. The L1 cache and the collections are read as they are at *)
(* the moment of the read: any content they can have.                      *)
(***************************************************************************)
RtIds == 1..MaxCtx

\* `current_time` of rank_contexts and the timestamps items carry; the unit is
\* the hour
current_time == 48
Timestamps == {current_time - 24, current_time}

\* request.levels: any list of levels, repeats included
RequestLevels == UNION {[1..n -> LevelSet] : n \in 0..MaxLevels}

\* config.retrieval_strategy: the defaults, and every level allowed the whole
\* budget (a Config built in code; only load_config validates the sum)
Allocations == {<<l1_allocation, l2_allocation, l3_allocation>>,
                <<Scale, Scale, Scale>>}

\* no read of the level has been given a budget
NoAllocation == -1

NoResponse ==
    [contexts |-> <<>>, total_tokens |-> 0, cache_hits |-> 0, total_searched |-> 0]

\* no retrieve_context call has been made
RtStart ==
    /\ rt_pc = "idle"
    /\ rt_max_tokens = 0
    /\ rt_request_levels = <<>>
    /\ rt_levels = <<>>
    /\ rt_tasks = <<>>
    /\ rt_all = <<>>
    /\ rt_cache_hits = 0
    /\ rt_searched = 0
    /\ rt_res = "none"
    /\ rt_response = NoResponse
    /\ rt_failed = {}
    /\ rt_answers = <<>>
    /\ rt_l1 = <<>>
    /\ rt_used = [l \in LevelSet |-> NoAllocation]
    /\ rt_empty = {}
    /\ rt_query = <<>>
    /\ rt_embed_requests = 0

\* a manager with any of the configurations, over any stored texts
RtInit ==
    /\ rt_manager \in {"HiRAGManager", "HiRAGManagerV2"}
    /\ rt_alloc \in Allocations
    /\ rt_tokens \in [RtIds -> 1..MaxTokenCount]
    /\ RtStart

\* a manager with the default configuration
RtDefault ==
    /\ rt_manager = "HiRAGManagerV2"
    /\ rt_alloc = <<l1_allocation, l2_allocation, l3_allocation>>
    /\ rt_tokens = [i \in RtIds |-> 1]
    /\ RtStart

\* ContextRetriever::calculate_allocations: `(max_tokens as f32 * alloc) as usize`
CalculateAllocations(max_tokens) ==
    [l \in LevelSet |->
       CASE l = "Immediate" -> (max_tokens * rt_alloc[1]) \div Scale
         [] l = "ShortTerm" -> (max_tokens * rt_alloc[2]) \div Scale
         [] l = "LongTerm" -> (max_tokens * rt_alloc[3]) \div Scale]

\* l1_cache after `all_contexts.sort_by(|a, b| b.timestamp.cmp(&a.timestamp))`:
\* at most l1_size entries <<id, timestamp>> of distinct ids, newest first,
\* entries of equal timestamp in the order DashMap::iter yields them
SortedNewestFirst ==
    {o \in UNION {[1..n -> RtIds \X Timestamps] : n \in 0..L1Size} :
       /\ \A i, j \in 1..Len(o) : i # j => o[i][1] # o[j][1]
       /\ \A i \in 1..(Len(o) - 1) : o[i][2] >= o[i + 1][2]}

\* the Context store_context and update_context put into the L1 cache
L1Context(entry) ==
    [id |-> entry[1], level |-> "Immediate", relevance_score |-> Scale,
     token_count |-> rt_tokens[entry[1]], timestamp |-> entry[2],
     access_count |-> 0]

\* what a point carries besides its id: the similarity the search gives it,
\* payload.timestamp and "access_count" of payload.metadata
Payloads ==
    {[score |-> 900, timestamp |-> current_time, access_count |-> 100],
     [score |-> 400, timestamp |-> current_time - 24, access_count |-> 0]}

\* VectorStore::search: at most MaxHits points of distinct ids, best first
SearchResults ==
    {h \in UNION {[1..n -> RtIds \X Payloads] : n \in 0..MaxHits} :
       /\ \A i, j \in 1..Len(h) : i # j => h[i][1] # h[j][1]
       /\ \A i \in 1..(Len(h) - 1) : h[i][2].score >= h[i + 1][2].score}

\* retrieve_from_level, lines 63-71: the Context made of a search result
HitContext(level, hit) ==
    [id |-> hit[1], level |-> level, relevance_score |-> hit[2].score,
     token_count |-> rt_tokens[hit[1]], timestamp |-> hit[2].timestamp,
     access_count |-> hit[2].access_count]

\* the same loop without its `break`: a context that does not fit is passed
\* over and the loop goes on
RECURSIVE TakeEveryFit(_, _, _)
TakeEveryFit(contexts, total_tokens, max_tokens) ==
    IF contexts = <<>> THEN <<>>
    ELSE LET context == Head(contexts)
         IN IF total_tokens + context.token_count <= max_tokens
              THEN <<context>> \o TakeEveryFit(Tail(contexts),
                                               total_tokens + context.token_count,
                                               max_tokens)
              ELSE TakeEveryFit(Tail(contexts), total_tokens, max_tokens)

\* the loop of get_l1_contexts and of retrieve_from_level: push while the
\* budget holds, `break` at the first context that does not fit
RECURSIVE TakeWhileFits(_, _, _)
TakeWhileFits(contexts, total_tokens, max_tokens) ==
    IF contexts = <<>> THEN <<>>
    ELSE LET context == Head(contexts)
         IN IF total_tokens + context.token_count <= max_tokens
              THEN <<context>> \o TakeWhileFits(Tail(contexts),
                                                total_tokens + context.token_count,
                                                max_tokens)
              ELSE <<>>

GetL1Contexts(order, max_tokens) ==
    TakeWhileFits([i \in 1..Len(order) |-> L1Context(order[i])], 0, max_tokens)

RetrieveFromLevel(level, results, max_tokens) ==
    TakeWhileFits([i \in 1..Len(results) |-> HitContext(level, results[i])],
                  0, max_tokens)

\* deduplicate_contexts: a context is pushed if seen_ids.insert(id) is true
RECURSIVE DedupLoop(_, _)
DedupLoop(contexts, seen_ids) ==
    IF contexts = <<>> THEN <<>>
    ELSE LET context == Head(contexts)
         IN IF context.id \in seen_ids
              THEN DedupLoop(Tail(contexts), seen_ids)
              ELSE <<context>> \o DedupLoop(Tail(contexts), seen_ids \cup {context.id})

DeduplicateContextsNone(contexts) == contexts
DeduplicateContexts(contexts) == DedupLoop(contexts, {})

\* ContextRanker::calculate_recency_score: exp(-age_hours / 24)
RecencyScore(timestamp) ==
    LET age_hours == IF current_time - timestamp > 0 THEN current_time - timestamp
                     ELSE 0
    IN IF age_hours = 0 THEN Scale
       ELSE IF age_hours <= 24 THEN 368
       ELSE 135

\* ContextRanker::calculate_level_score
LevelScore(level) ==
    CASE level = "Immediate" -> Scale
      [] level = "ShortTerm" -> 700
      [] level = "LongTerm" -> 500

\* ContextRanker::calculate_frequency_score: log10(1 + n) / log10(101)
FrequencyScore(access_count) ==
    IF access_count > 0
      THEN IF access_count >= 100 THEN Scale ELSE 499
      ELSE 0

\* ContextRanker::calculate_score
CalculateScore(context) ==
    (context.relevance_score * similarity_weight
       + RecencyScore(context.timestamp) * recency_weight
       + LevelScore(context.level) * level_weight
       + FrequencyScore(context.access_count) * frequency_weight) \div Scale

\* rank_contexts, lines 21-23
Scored(contexts) ==
    [i \in 1..Len(contexts) |->
       [contexts[i] EXCEPT !.relevance_score = CalculateScore(contexts[i])]]

\* rank_contexts, lines 26-28: sort_by is stable, contexts of equal score keep
\* their order
RECURSIVE InsertByScore(_, _)
InsertByScore(context, sorted) ==
    IF sorted = <<>> THEN <<context>>
    ELSE IF Head(sorted).relevance_score >= context.relevance_score
      THEN <<Head(sorted)>> \o InsertByScore(context, Tail(sorted))
      ELSE <<context>> \o sorted

RECURSIVE SortByScore(_)
SortByScore(contexts) ==
    IF contexts = <<>> THEN <<>>
    ELSE InsertByScore(contexts[Len(contexts)],
                       SortByScore(SubSeq(contexts, 1, Len(contexts) - 1)))

RankContextsUnsorted(contexts) == Scored(contexts)
RankContexts(contexts) == SortByScore(Scored(contexts))

RECURSIVE SumTokens(_)
SumTokens(contexts) ==
    IF contexts = <<>> THEN 0
    ELSE Head(contexts).token_count + SumTokens(Tail(contexts))

\* retrieve_context, lines 324-332: a context that does not fit is skipped and
\* the loop goes on
RECURSIVE TokenLimitLoop(_, _, _, _)
TokenLimitLoop(ranked, final_contexts, total_tokens, max_tokens) ==
    IF ranked = <<>>
      THEN [final_contexts |-> final_contexts, total_tokens |-> total_tokens]
      ELSE LET context == Head(ranked)
           IN IF total_tokens + context.token_count <= max_tokens
                THEN TokenLimitLoop(Tail(ranked), Append(final_contexts, context),
                                    total_tokens + context.token_count, max_tokens)
                ELSE TokenLimitLoop(Tail(ranked), final_contexts, total_tokens,
                                    max_tokens)

ApplyTokenLimitUnchecked(ranked, max_tokens) ==
    [final_contexts |-> ranked, total_tokens |-> SumTokens(ranked)]
ApplyTokenLimit(ranked, max_tokens) == TokenLimitLoop(ranked, <<>>, 0, max_tokens)

\* the cap on request.max_tokens, 100000 in the code
TokenCountCap == MaxTokens

\* a caller passes a ContextRequest to retrieve_context
RetrieveCall ==
    /\ rt_pc = "idle"
    /\ \E query \in RequestTexts, max_tokens \in 0..(TokenCountCap + 1),
          levels \in RequestLevels :
         /\ rt_query' = query
         /\ rt_max_tokens' = max_tokens
         /\ rt_request_levels' = levels
    /\ rt_pc' = "called"
    /\ UNCHANGED <<rt_manager, rt_alloc, rt_tokens, rt_levels, rt_tasks, rt_all,
                   rt_cache_hits, rt_searched, rt_res, rt_response, rt_failed,
                   rt_answers, rt_l1, rt_used, rt_empty, rt_embed_requests>>
    /\ UNCHANGED notRt

\* HiRAGManagerV2::retrieve_context lines 242-244: the query and max_tokens are
\* validated; HiRAGManager::retrieve_context (manager.rs:163-168) validates
\* nothing
ValidateRequest ==
    IF rt_manager # "HiRAGManagerV2" THEN "Ok"
    ELSE IF validate_text(rt_query) # "Ok" THEN validate_text(rt_query)
    ELSE validate_token_count(rt_max_tokens, TokenCountCap)

\* retrieve_context, lines 239-263: validate the request, embed the query,
\* settle the levels to search
RetrieveBegin ==
    /\ rt_pc = "called"
    /\ \E embedded \in BOOLEAN :
         IF ValidateRequest # "Ok"
           THEN /\ rt_res' = "validation_error"
                /\ rt_pc' = "done"
                /\ UNCHANGED <<rt_levels, rt_query, rt_embed_requests>>
           ELSE /\ rt_query' = <<>>
                /\ rt_embed_requests' = rt_embed_requests + 1
                /\ IF ~embedded
                     THEN /\ rt_res' = "embedding_error"
                          /\ rt_pc' = "done"
                          /\ UNCHANGED rt_levels
                     ELSE /\ rt_res' = "none"
                          /\ rt_pc' = "levels"
                          /\ rt_levels' = IF rt_request_levels = <<>> THEN Levels
                                          ELSE rt_request_levels
    /\ UNCHANGED <<rt_manager, rt_alloc, rt_tokens, rt_max_tokens, rt_request_levels,
                   rt_tasks, rt_all,
                   rt_cache_hits, rt_searched, rt_response, rt_failed, rt_answers, rt_l1,
                   rt_used, rt_empty>>
    /\ UNCHANGED notRt

\* retrieve_context, lines 268-297: read the L1 cache for Immediate, spawn a
\* search for the other levels
RetrieveLevel ==
    /\ rt_pc = "levels"
    /\ LET level == Head(rt_levels)
           max_tokens == CalculateAllocations(rt_max_tokens)[level]
       IN IF level = "Immediate"
            THEN \E order \in SortedNewestFirst :
                   LET contexts == GetL1Contexts(order, max_tokens)
                   IN /\ rt_cache_hits' = rt_cache_hits + 1
                      /\ rt_searched' = rt_searched + Len(contexts)
                      /\ rt_all' = rt_all \o contexts
                      /\ rt_answers' = rt_answers \o contexts
                      /\ rt_l1' = order
                      /\ rt_empty' = IF order = <<>> THEN rt_empty \cup {level}
                                      ELSE rt_empty \ {level}
                      /\ UNCHANGED rt_tasks
            ELSE /\ rt_tasks' = Append(rt_tasks, level)
                 /\ UNCHANGED <<rt_cache_hits, rt_searched, rt_all, rt_answers, rt_l1,
                                rt_empty>>
    /\ rt_used' = [rt_used EXCEPT ![Head(rt_levels)] =
                      CalculateAllocations(rt_max_tokens)[Head(rt_levels)]]
    /\ rt_levels' = Tail(rt_levels)
    /\ rt_pc' = IF Tail(rt_levels) = <<>> THEN "join" ELSE "levels"
    /\ UNCHANGED <<rt_manager, rt_alloc, rt_tokens, rt_max_tokens,
                   rt_request_levels, rt_res, rt_response, rt_failed>>
    /\ UNCHANGED rtRequest
    /\ UNCHANGED notRt

\* what retrieve_context does with a search that failed or a task that did
\* not join: HiRAGManagerV2 goes on with the other levels (lines 306-313),
\* HiRAGManager returns the error (manager.rs, lines 225-232)
AfterTaskFailureAbort == "done"
AfterTaskFailure == IF rt_manager = "HiRAGManagerV2" THEN "join" ELSE "done"

\* retrieve_context, lines 300-315: await the next task
TaskJoin ==
    /\ rt_pc = "join"
    /\ rt_tasks # <<>>
    /\ \E ok \in BOOLEAN :
       \E results \in (IF ok THEN SearchResults ELSE {<<>>}) :
         LET level == Head(rt_tasks)
             max_tokens == CalculateAllocations(rt_max_tokens)[level]
             contexts == IF ok THEN RetrieveFromLevel(level, results, max_tokens)
                         ELSE <<>>
         IN /\ rt_searched' = rt_searched + Len(contexts)
            /\ rt_all' = rt_all \o contexts
            /\ rt_pc' = IF ok THEN "join" ELSE AfterTaskFailure
            /\ rt_res' = IF rt_pc' = "done" THEN "retrieval_error" ELSE rt_res
            /\ rt_failed' = IF ok THEN rt_failed ELSE rt_failed \cup {level}
            /\ rt_empty' = IF ok /\ results = <<>> THEN rt_empty \cup {level}
                            ELSE rt_empty
            /\ rt_answers' = IF ok THEN rt_answers \o RetrieveFromLevel(level, results, max_tokens)
                              ELSE rt_answers
    /\ rt_tasks' = Tail(rt_tasks)
    /\ UNCHANGED <<rt_manager, rt_alloc, rt_tokens, rt_max_tokens,
                   rt_request_levels, rt_levels, rt_cache_hits, rt_response, rt_l1,
                   rt_used>>
    /\ UNCHANGED rtRequest
    /\ UNCHANGED notRt

\* retrieve_context, lines 317-374: deduplicate (HiRAGManagerV2 only), rank,
\* apply the token limit, build the response
Respond ==
    /\ rt_pc = "join"
    /\ rt_tasks = <<>>
    /\ LET merged == IF rt_manager = "HiRAGManagerV2"
                       THEN DeduplicateContexts(rt_all)
                       ELSE rt_all
           ranked_contexts == RankContexts(merged)
           limited == ApplyTokenLimit(ranked_contexts, rt_max_tokens)
       IN rt_response' = [contexts |-> limited.final_contexts,
                          total_tokens |-> limited.total_tokens,
                          cache_hits |-> rt_cache_hits,
                          total_searched |-> rt_searched]
    /\ rt_res' = "ok"
    /\ rt_pc' = "done"
    /\ UNCHANGED <<rt_manager, rt_alloc, rt_tokens, rt_max_tokens,
                   rt_request_levels, rt_levels, rt_tasks, rt_all, rt_cache_hits,
                   rt_searched, rt_failed, rt_answers, rt_l1, rt_used, rt_empty>>
    /\ UNCHANGED rtRequest
    /\ UNCHANGED notRt

\* the caller has the result; the request, the locals of the call and the
\* response are dropped
RetrieveEnd ==
    /\ rt_pc = "done"
    /\ rt_pc' = "idle"
    /\ rt_max_tokens' = 0
    /\ rt_request_levels' = <<>>
    /\ rt_levels' = <<>>
    /\ rt_tasks' = <<>>
    /\ rt_all' = <<>>
    /\ rt_cache_hits' = 0
    /\ rt_searched' = 0
    /\ rt_res' = "none"
    /\ rt_response' = NoResponse
    /\ rt_failed' = {}
    /\ rt_answers' = <<>>
    /\ rt_l1' = <<>>
    /\ rt_used' = [l \in LevelSet |-> NoAllocation]
    /\ rt_empty' = {}
    /\ rt_query' = <<>>
    /\ rt_embed_requests' = 0
    /\ UNCHANGED <<rt_manager, rt_alloc, rt_tokens>>
    /\ UNCHANGED notRt

(***************************************************************************)
(* The embedding clients: EmbeddingClient and EmbeddingClientV2            *)
(***************************************************************************)
\* the texts the callers embed, and the longest slice given to embed_batch
Texts == 1..MaxTexts
TextSeqs == UNION {[1..n -> Texts] : n \in 0..MaxBatch}

\* the vector the API computes for a text; Embedding(0) is a vector the API
\* sends that no text of the request asked for
Embedding(t) == <<"embedding", t>>
NoEmbedding == <<>>

\* cache_key: "emb_" followed by the digest of the text
cache_key(text) == <<"emb_", text>>

\* a text given to the cache as the key: the string as it is
TextAsKey(text) == <<"", text>>

\* the keys the cache is asked for: a text itself, or the cache_key of a text
CacheKeys == {TextAsKey(t) : t \in Texts} \cup {cache_key(t) : t \in Texts}

\* the key the cache is read with: EmbeddingClient reads cache_key(text),
\* EmbeddingClientV2 reads the text itself
CacheGetKey(text) ==
    IF emb_client = "EmbeddingClientV2" THEN TextAsKey(text) ELSE cache_key(text)

\* EmbeddingCache::get: the entry under the key, None when the cache is off
CacheGet(key) == IF emb_cache_on THEN emb_cache[key] ELSE NoEmbedding

\* EmbeddingCache::put of the first n embeddings of `data` under the
\* cache_key of the texts they answer
CachePut(texts, data, n) ==
    IF emb_cache_on
      THEN [key \in CacheKeys |->
              IF \E i \in 1..n : key = cache_key(texts[i])
                THEN data[CHOOSE i \in 1..n : key = cache_key(texts[i])
                            /\ \A j \in (i+1)..n : key # cache_key(texts[j])]
                ELSE emb_cache[key]]
      ELSE emb_cache

\* what a send can meet: no response, a 200 whose body does not parse, a
\* status that is not a success, or a 200 with `data`
Outcomes == {"transport_error", "unparsable", "unauthorized", "too_many_requests",
             "server_error", "ok"}
FailedOutcomes == {"transport_error", "unauthorized", "too_many_requests",
                   "server_error"}

\* response.data of a 200 with n embeddings: the API answers the inputs in
\* order, and sends vectors of its own beyond them
ResponseData(request, n) ==
    [j \in 1..n |-> IF j <= Len(request) THEN Embedding(request[j]) ELSE Embedding(0)]

\* the responses a send of `request` can meet
Responses(request) ==
    {[outcome |-> o, data |-> <<>>] : o \in Outcomes \ {"ok"}}
      \cup {[outcome |-> "ok", data |-> ResponseData(request, n)] :
              n \in 0..(Len(request) + 1)}

\* the error try_request returns (EmbeddingClient)
TryRequestError(outcome) ==
    CASE outcome = "unauthorized" -> "AuthenticationFailed"
      [] outcome = "too_many_requests" -> "RateLimitExceeded"
      [] outcome = "server_error" -> "ApiError"
      [] OTHER -> "NetworkError"

\* the error make_request returns when it gives up (EmbeddingClientV2)
GiveUpError(outcome) ==
    IF outcome = "transport_error" THEN "NetworkError" ELSE "ApiError"

Min(a, b) == IF a <= b THEN a ELSE b

\* the indices i of `texts` whose cache lookup misses, in order
RECURSIVE Uncached(_, _)
Uncached(texts, i) ==
    IF i > Len(texts) THEN <<>>
    ELSE (IF CacheGet(CacheGetKey(texts[i])) = NoEmbedding THEN <<i>> ELSE <<>>)
           \o Uncached(texts, i + 1)

\* the <<index, embedding>> pairs of the texts whose cache lookup hits, in order
RECURSIVE Cached(_, _)
Cached(texts, i) ==
    IF i > Len(texts) THEN <<>>
    ELSE (IF CacheGet(CacheGetKey(texts[i])) = NoEmbedding THEN <<>>
          ELSE <<<<i, CacheGet(CacheGetKey(texts[i]))>>>>)
           \o Cached(texts, i + 1)

\* the texts at the given indices
TextsAt(texts, indices) == [k \in 1..Len(indices) |-> texts[indices[k]]]

\* batch_results.sort_by_key(|(index, _)| *index), then the embeddings alone
RECURSIVE SortedByIndex(_, _)
SortedByIndex(pairs, k) ==
    IF k > MaxBatch THEN <<>>
    ELSE LET here == SelectSeq(pairs, LAMBDA pr : pr[1] = k)
         IN  [j \in 1..Len(here) |-> here[j][2]] \o SortedByIndex(pairs, k + 1)

\* the locals of a client that runs no call
EmbIdleLocals ==
    /\ emb_pc = "idle"
    /\ emb_op = "none"
    /\ emb_texts = <<>>
    /\ emb_offset = 0
    /\ emb_chunk = <<>>
    /\ emb_request = <<>>
    /\ emb_indices = <<>>
    /\ emb_partial = <<>>
    /\ emb_results = <<>>
    /\ emb_attempts = 0
    /\ emb_last_error = "none"
    /\ emb_outcome = "none"
    /\ emb_data = <<>>
    /\ emb_res = "none"
    /\ emb_out = <<>>

EmbNoHistory ==
    /\ emb_calls = 0
    /\ emb_sent = 0
    /\ emb_failed_run = 0
    /\ emb_known = {}
    /\ emb_hit_expected = FALSE
    /\ emb_before = <<"Closed", 0>>
    /\ emb_after_401 = FALSE

\* a client just constructed: either client, any valid max_retries and
\* batch_size, the cache on or off and empty, the breaker attached or not
\* (with_circuit_breaker exists on EmbeddingClientV2 only)
EmbInit ==
    /\ emb_client \in {"EmbeddingClient", "EmbeddingClientV2"}
    /\ emb_max_retries \in 0..MaxRetries
    /\ emb_batch_size \in 1..MaxBatch
    /\ emb_breaker \in {b \in BOOLEAN : b => emb_client = "EmbeddingClientV2"}
    /\ emb_cache_on \in BOOLEAN
    /\ emb_cache = [key \in CacheKeys |-> NoEmbedding]
    /\ EmbIdleLocals
    /\ EmbNoHistory

\* the client the other specifications keep aside
EmbDefault ==
    /\ emb_client = "EmbeddingClientV2"
    /\ emb_max_retries = MaxRetries
    /\ emb_batch_size = MaxBatch
    /\ emb_breaker = TRUE
    /\ emb_cache_on = TRUE
    /\ emb_cache = [key \in CacheKeys |-> NoEmbedding]
    /\ EmbIdleLocals
    /\ EmbNoHistory

embBatch == <<emb_offset, emb_chunk, emb_indices, emb_partial, emb_results>>
embTry == <<emb_attempts, emb_last_error, emb_outcome, emb_data>>

\* a call begins: what the history records of it
EmbCallBegins(op, texts) ==
    /\ emb_calls < MaxEmbCalls
    /\ emb_calls' = emb_calls + 1
    /\ emb_sent' = 0
    /\ emb_after_401' = FALSE
    /\ emb_hit_expected' = (op = "embed_single" /\ emb_cache_on /\ texts[1] \in emb_known)
    /\ emb_op' = op
    /\ emb_texts' = texts
    /\ UNCHANGED <<emb_failed_run, emb_known, emb_before>>

\* the call returns an error
EmbFail(error) ==
    /\ emb_res' = error
    /\ emb_out' = <<>>
    /\ emb_pc' = "done"

\* the call returns Ok(vectors)
EmbOk(vectors) ==
    /\ emb_res' = "ok"
    /\ emb_out' = vectors
    /\ emb_pc' = "done"

\* embed_single, client.rs 189-199 and client_v2.rs 262-274: the cache is
\* asked first, a miss prepares the request
EmbedSingleBegin ==
    \E t \in Texts :
        /\ emb_pc = "idle"
        /\ EmbCallBegins("embed_single", <<t>>)
        /\ IF CacheGet(CacheGetKey(t)) # NoEmbedding
             THEN /\ EmbOk(<<CacheGet(CacheGetKey(t))>>)
                  /\ UNCHANGED emb_request
             ELSE /\ emb_request' = <<t>>
                  /\ emb_pc' = "make_request"
                  /\ UNCHANGED <<emb_res, emb_out>>
        /\ UNCHANGED <<embConfig, emb_cache, embBatch, embTry, cbVars>>
        /\ UNCHANGED notEmb

\* EmbeddingClient::embed_batch, client.rs 218-255: the checks of the slice,
\* then the cache is asked for every text
EmbedBatchBeginV1 ==
    \E texts \in TextSeqs :
        /\ emb_pc = "idle"
        /\ emb_client = "EmbeddingClient"
        /\ EmbCallBegins("embed_batch", texts)
        /\ IF texts = <<>> \/ Len(texts) > emb_batch_size
             THEN /\ EmbFail("InvalidInput")
                  /\ UNCHANGED <<emb_request, emb_indices, emb_partial>>
             ELSE LET uncached_indices == Uncached(texts, 1)
                      results == [i \in 1..Len(texts) |-> CacheGet(CacheGetKey(texts[i]))]
                  IN  /\ emb_indices' = uncached_indices
                      /\ emb_request' = TextsAt(texts, uncached_indices)
                      /\ emb_partial' = results
                      /\ IF uncached_indices = <<>>
                           THEN EmbOk(results)
                           ELSE /\ emb_pc' = "make_request"
                                /\ UNCHANGED <<emb_res, emb_out>>
        /\ UNCHANGED <<embConfig, emb_cache, emb_offset, emb_chunk, emb_results,
                       embTry, cbVars>>
        /\ UNCHANGED notEmb

\* EmbeddingClientV2::embed_batch, client_v2.rs 297-304: the loop over the
\* chunks starts
EmbedBatchBeginV2 ==
    \E texts \in TextSeqs :
        /\ emb_pc = "idle"
        /\ emb_client = "EmbeddingClientV2"
        /\ EmbCallBegins("embed_batch", texts)
        /\ emb_pc' = "chunk"
        /\ UNCHANGED <<embConfig, emb_cache, emb_request, embBatch, embTry,
                       emb_res, emb_out, cbVars>>
        /\ UNCHANGED notEmb

\* client_v2.rs 304-327 and 345: the next chunk asks the cache for its
\* texts; after the last chunk the call returns `results`
EmbChunk ==
    /\ emb_pc = "chunk"
    /\ IF emb_offset >= Len(emb_texts)
         THEN /\ EmbOk(emb_results)
              /\ UNCHANGED <<emb_request, embBatch>>
         ELSE LET chunk == SubSeq(emb_texts, emb_offset + 1,
                                  Min(emb_offset + emb_batch_size, Len(emb_texts)))
                  uncached_indices == Uncached(chunk, 1)
                  batch_results == Cached(chunk, 1)
              IN  /\ emb_chunk' = chunk
                  /\ emb_indices' = uncached_indices
                  /\ emb_request' = TextsAt(chunk, uncached_indices)
                  /\ IF uncached_indices = <<>>
                       THEN /\ emb_results' = emb_results \o SortedByIndex(batch_results, 1)
                            /\ emb_offset' = emb_offset + Len(chunk)
                            /\ emb_partial' = <<>>
                            /\ emb_pc' = "chunk"
                       ELSE /\ emb_partial' = batch_results
                            /\ emb_pc' = "make_request"
                            /\ UNCHANGED <<emb_results, emb_offset>>
                  /\ UNCHANGED <<emb_res, emb_out>>
    /\ UNCHANGED <<embConfig, emb_cache, emb_op, emb_texts, embTry, embHistory, cbVars>>
    /\ UNCHANGED notEmb

\* EmbeddingClient::make_request, client.rs 96-97
EmbMakeRequestV1 ==
    /\ emb_pc = "make_request"
    /\ emb_client = "EmbeddingClient"
    /\ emb_attempts' = 0
    /\ emb_last_error' = "none"
    /\ emb_pc' = "loop"
    /\ UNCHANGED <<embConfig, emb_cache, emb_op, emb_texts, emb_request, embBatch,
                   emb_outcome, emb_data, emb_res, emb_out, embHistory, cbVars>>
    /\ UNCHANGED notEmb

\* what the history records of an attempt
EmbAttemptSent(outcome) ==
    /\ emb_sent' = emb_sent + 1
    /\ emb_failed_run' = IF outcome \in FailedOutcomes
                           THEN Min(emb_failed_run + 1, failure_threshold) ELSE 0
    /\ emb_before' = <<state, failure_count>>
    /\ emb_after_401' = (emb_after_401 \/ emb_outcome = "unauthorized")
    /\ UNCHANGED <<emb_calls, emb_known, emb_hit_expected>>

\* client.rs 99-125: one turn of `while attempts < max_retries`: try_request
\* returns the response, or an error kept in last_error
EmbTryRequest ==
    \E r \in Responses(emb_request) :
        /\ emb_pc = "loop"
        /\ emb_attempts < emb_max_retries
        /\ emb_attempts' = emb_attempts + 1
        /\ emb_outcome' = r.outcome
        /\ emb_data' = r.data
        /\ EmbAttemptSent(r.outcome)
        /\ IF r.outcome = "ok"
             THEN emb_pc' = "response" /\ UNCHANGED emb_last_error
             ELSE emb_pc' = "loop" /\ emb_last_error' = TryRequestError(r.outcome)
        /\ UNCHANGED <<embConfig, emb_cache, emb_op, emb_texts, emb_request, embBatch,
                       emb_res, emb_out, cbVars>>
        /\ UNCHANGED notEmb

\* client.rs 128: the loop is left, `Err(last_error.unwrap())`
EmbExhausted ==
    /\ emb_pc = "loop"
    /\ emb_attempts >= emb_max_retries
    /\ EmbFail(IF emb_last_error = "none" THEN "panic: unwrap on None"
               ELSE emb_last_error)
    /\ UNCHANGED <<embConfig, emb_cache, emb_op, emb_texts, emb_request, embBatch,
                   embTry, embHistory, cbVars>>
    /\ UNCHANGED notEmb

\* EmbeddingClientV2::make_request, client_v2.rs 143-144: the breaker is asked
EmbAllowRequest ==
    /\ emb_pc = "make_request"
    /\ emb_client = "EmbeddingClientV2"
    /\ emb_breaker
    /\ AllowRequestEnter(1)
    /\ emb_pc' = "allow_request"
    /\ UNCHANGED <<embConfig, emb_cache, emb_op, emb_texts, emb_request, embBatch,
                   embTry, emb_res, emb_out, embHistory>>
    /\ UNCHANGED notEmb

\* client_v2.rs 143 and 152-153: no breaker is attached
EmbNoBreaker ==
    /\ emb_pc = "make_request"
    /\ emb_client = "EmbeddingClientV2"
    /\ ~emb_breaker
    /\ emb_attempts' = 0
    /\ emb_pc' = "send"
    /\ UNCHANGED <<embConfig, emb_cache, emb_op, emb_texts, emb_request, embBatch,
                   emb_last_error, emb_outcome, emb_data, emb_res, emb_out,
                   embHistory, cbVars>>
    /\ UNCHANGED notEmb

\* client_v2.rs 144-153: allow_request has returned
EmbAllowed ==
    /\ emb_pc = "allow_request"
    /\ cb_pc[1] = "idle"
    /\ IF cb_ret[1] = "true"
         THEN /\ emb_attempts' = 0
              /\ emb_pc' = "send"
              /\ UNCHANGED <<emb_res, emb_out>>
         ELSE /\ EmbFail("ServiceUnavailable")
              /\ UNCHANGED emb_attempts
    /\ UNCHANGED <<embConfig, emb_cache, emb_op, emb_texts, emb_request, embBatch,
                   emb_last_error, emb_outcome, emb_data, embHistory, cbVars>>
    /\ UNCHANGED notEmb

\* client_v2.rs 155-165 and 232: one attempt is sent
EmbSend ==
    \E r \in Responses(emb_request) :
        /\ emb_pc = "send"
        /\ emb_attempts' = emb_attempts + 1
        /\ emb_outcome' = r.outcome
        /\ emb_data' = r.data
        /\ EmbAttemptSent(r.outcome)
        /\ emb_pc' = CASE r.outcome = "transport_error" ->
                            IF emb_breaker THEN "record_failure" ELSE "decide"
                       [] emb_breaker -> "record_success"
                       [] r.outcome = "ok" -> "response"
                       [] OTHER -> "decide"
        /\ UNCHANGED <<embConfig, emb_cache, emb_op, emb_texts, emb_request, embBatch,
                       emb_last_error, emb_res, emb_out, cbVars>>
        /\ UNCHANGED notEmb

\* client_v2.rs 167-169: a response came, whatever its status
EmbRecordSuccess ==
    /\ emb_pc = "record_success"
    /\ RecordSuccessEnter(1)
    /\ emb_pc' = "success_recorded"
    /\ UNCHANGED <<embConfig, emb_cache, emb_op, emb_texts, emb_request, embBatch,
                   embTry, emb_res, emb_out, embHistory>>
    /\ UNCHANGED notEmb

\* client_v2.rs 171-176, 180 and 195: record_success has returned
EmbSuccessRecorded ==
    /\ emb_pc = "success_recorded"
    /\ cb_pc[1] = "idle"
    /\ emb_pc' = IF emb_outcome = "ok" THEN "response" ELSE "record_failure"
    /\ UNCHANGED <<embConfig, emb_cache, emb_op, emb_texts, emb_request, embBatch,
                   embTry, emb_res, emb_out, embHistory, cbVars>>
    /\ UNCHANGED notEmb

\* client_v2.rs 181-183, 197-199 and 234-236
EmbRecordFailure ==
    /\ emb_pc = "record_failure"
    /\ RecordFailureEnter(1)
    /\ emb_pc' = "failure_recorded"
    /\ UNCHANGED <<embConfig, emb_cache, emb_op, emb_texts, emb_request, embBatch,
                   embTry, emb_res, emb_out, embHistory>>
    /\ UNCHANGED notEmb

\* record_failure has returned
EmbFailureRecorded ==
    /\ emb_pc = "failure_recorded"
    /\ cb_pc[1] = "idle"
    /\ emb_pc' = "decide"
    /\ UNCHANGED <<embConfig, emb_cache, emb_op, emb_texts, emb_request, embBatch,
                   embTry, emb_res, emb_out, embHistory, cbVars>>
    /\ UNCHANGED notEmb

\* `attempts <= max_retries`
MayRetry(attempts) == attempts <= emb_max_retries

\* client_v2.rs 185-192, 204-229 and 240-247: a 401 returns at once, any
\* other failure is retried while attempts <= max_retries
EmbDecide ==
    /\ emb_pc = "decide"
    /\ IF emb_outcome = "unauthorized"
         THEN EmbFail("AuthenticationFailed")
         ELSE IF MayRetry(emb_attempts)
                THEN /\ emb_pc' = "send"
                     /\ UNCHANGED <<emb_res, emb_out>>
                ELSE EmbFail(GiveUpError(emb_outcome))
    /\ UNCHANGED <<embConfig, emb_cache, emb_op, emb_texts, emb_request, embBatch,
                   embTry, embHistory, cbVars>>
    /\ UNCHANGED notEmb

\* embed_single, client.rs 202-214 and client_v2.rs 277-291: the first
\* embedding of the response is cached under cache_key(text) and returned
EmbSingleResponse ==
    /\ emb_pc = "response"
    /\ emb_op = "embed_single"
    /\ IF emb_data = <<>>
         THEN /\ EmbFail("ApiError")
              /\ UNCHANGED <<emb_cache, emb_known>>
         ELSE /\ emb_cache' = CachePut(emb_texts, emb_data, 1)
              /\ emb_known' = IF emb_cache_on THEN emb_known \cup {emb_texts[1]}
                              ELSE emb_known
              /\ EmbOk(<<emb_data[1]>>)
    /\ UNCHANGED <<embConfig, emb_op, emb_texts, emb_request, embBatch, embTry,
                   emb_calls, emb_sent, emb_failed_run, emb_hit_expected, emb_before,
                   emb_after_401, cbVars>>
    /\ UNCHANGED notEmb

\* EmbeddingClient::embed_batch, client.rs 258-276: the i-th embedding goes
\* to results[uncached_indices[i]]; a slot left None is an error
EmbBatchResponseV1 ==
    /\ emb_pc = "response"
    /\ emb_op = "embed_batch"
    /\ emb_client = "EmbeddingClient"
    /\ LET n == Min(Len(emb_data), Len(emb_indices))
           results == [i \in 1..Len(emb_partial) |->
                         IF \E k \in 1..n : emb_indices[k] = i
                           THEN emb_data[CHOOSE k \in 1..n : emb_indices[k] = i]
                           ELSE emb_partial[i]]
       IN  /\ emb_cache' = CachePut(emb_request, emb_data, n)
           /\ emb_partial' = results
           /\ IF Len(emb_data) > Len(emb_indices)
                THEN EmbFail("panic: index out of bounds")
                ELSE IF \E i \in 1..Len(results) : results[i] = NoEmbedding
                       THEN EmbFail("ApiError")
                       ELSE EmbOk(results)
    /\ UNCHANGED <<embConfig, emb_op, emb_texts, emb_request, emb_offset, emb_chunk,
                   emb_indices, emb_results, embTry, embHistory, cbVars>>
    /\ UNCHANGED notEmb

\* EmbeddingClientV2::embed_batch, client_v2.rs 329-342: the i-th embedding
\* is pushed with uncached_indices[i]; the chunk's pairs are sorted by index
\* and appended to `results`
EmbBatchResponseV2 ==
    /\ emb_pc = "response"
    /\ emb_op = "embed_batch"
    /\ emb_client = "EmbeddingClientV2"
    /\ LET n == Min(Len(emb_data), Len(emb_indices))
           batch_results == emb_partial \o [k \in 1..n |-> <<emb_indices[k], emb_data[k]>>]
       IN  /\ emb_cache' = CachePut(emb_request, emb_data, n)
           /\ emb_partial' = batch_results
           /\ IF Len(emb_data) > Len(emb_indices)
                THEN /\ EmbFail("panic: index out of bounds")
                     /\ UNCHANGED <<emb_results, emb_offset>>
                ELSE /\ emb_results' = emb_results \o SortedByIndex(batch_results, 1)
                     /\ emb_offset' = emb_offset + Len(emb_chunk)
                     /\ emb_pc' = "chunk"
                     /\ UNCHANGED <<emb_res, emb_out>>
    /\ UNCHANGED <<embConfig, emb_op, emb_texts, emb_request, emb_chunk, emb_indices,
                   embTry, embHistory, cbVars>>
    /\ UNCHANGED notEmb

\* the caller has its result; the client waits for the next call
EmbReturn ==
    /\ emb_pc = "done"
    /\ emb_pc' = "idle"
    /\ emb_op' = "none"
    /\ emb_texts' = <<>>
    /\ emb_offset' = 0
    /\ emb_chunk' = <<>>
    /\ emb_request' = <<>>
    /\ emb_indices' = <<>>
    /\ emb_partial' = <<>>
    /\ emb_results' = <<>>
    /\ emb_attempts' = 0
    /\ emb_last_error' = "none"
    /\ emb_outcome' = "none"
    /\ emb_data' = <<>>
    /\ emb_res' = "none"
    /\ emb_out' = <<>>
    /\ emb_sent' = 0
    /\ emb_hit_expected' = FALSE
    /\ emb_after_401' = FALSE
    /\ UNCHANGED <<embConfig, emb_cache, emb_calls, emb_failed_run, emb_known,
                   emb_before, cbVars>>
    /\ UNCHANGED notEmb

\* moka drops an entry: time_to_live, time_to_idle or max_capacity
CacheExpire ==
    \E key \in CacheKeys :
        /\ emb_pc = "idle"
        /\ emb_cache[key] # NoEmbedding
        /\ emb_cache' = [emb_cache EXCEPT ![key] = NoEmbedding]
        /\ emb_known' = {t \in emb_known : key # cache_key(t)}
        /\ UNCHANGED <<embConfig, embLocals, emb_calls, emb_sent, emb_failed_run,
                       emb_hit_expected, emb_before, emb_after_401, cbVars>>
        /\ UNCHANGED notEmb

(***************************************************************************)
(* ContextRetriever::calculate_dynamic_allocations                         *)
(***************************************************************************)
\* the strategies a configuration can carry: the default one, one whose
\* allocations sum to 1.005 (validate_config accepts a sum within 0.01 of
\* 1.0), and one built in code that gives every tier the whole budget
Strategies == Allocations \cup {<<305, 400, 300>>}

\* the budgets and the numbers of available contexts the function is given
DynMaxTokens == (0..MaxTokens) \cup {10, 100, 1000}
Available == 0..MaxAvailable

\* `unused_tokens / active_levels`
RedistributionNone(unused_tokens, active_levels) == 0
Redistribution(unused_tokens, active_levels) == unused_tokens \div active_levels

\* calculate_dynamic_allocations, lines 101-143
CalculateDynamicAllocations(max_tokens, l1_available, l2_available, l3_available) ==
    LET base == CalculateAllocations(max_tokens)
        l1_tokens == IF l1_available = 0 THEN 0 ELSE base["Immediate"]
        l2_tokens == IF l2_available = 0 THEN 0 ELSE base["ShortTerm"]
        l3_tokens == IF l3_available = 0 THEN 0 ELSE base["LongTerm"]
        unused_tokens == (IF l1_available = 0 THEN base["Immediate"] ELSE 0)
                           + (IF l2_available = 0 THEN base["ShortTerm"] ELSE 0)
                           + (IF l3_available = 0 THEN base["LongTerm"] ELSE 0)
        active_levels == (IF l1_available = 0 THEN 0 ELSE 1)
                           + (IF l2_available = 0 THEN 0 ELSE 1)
                           + (IF l3_available = 0 THEN 0 ELSE 1)
        redistribution == IF active_levels > 0 /\ unused_tokens > 0
                            THEN Redistribution(unused_tokens, active_levels) ELSE 0
    IN  << IF l1_available > 0 THEN l1_tokens + redistribution ELSE l1_tokens,
           IF l2_available > 0 THEN l2_tokens + redistribution ELSE l2_tokens,
           IF l3_available > 0 THEN l3_tokens + redistribution ELSE l3_tokens >>

\* no call of calculate_dynamic_allocations is in progress
DynIdle ==
    /\ dyn_pc = "idle"
    /\ dyn_max_tokens = 0
    /\ dyn_available = <<0, 0, 0>>
    /\ dyn_result = <<0, 0, 0>>

\* a call with any budget and any availability
DynAllocate ==
    /\ dyn_pc = "idle"
    /\ \E max_tokens \in DynMaxTokens, available \in Available \X Available \X Available :
         /\ dyn_max_tokens' = max_tokens
         /\ dyn_available' = available
         /\ dyn_result' = CalculateDynamicAllocations(max_tokens, available[1],
                                                      available[2], available[3])
    /\ dyn_pc' = "done"
    /\ UNCHANGED notDyn

\* the caller has the allocations
DynReturn ==
    /\ dyn_pc = "done"
    /\ dyn_pc' = "idle"
    /\ dyn_max_tokens' = 0
    /\ dyn_available' = <<0, 0, 0>>
    /\ dyn_result' = <<0, 0, 0>>
    /\ UNCHANGED notDyn

(***************************************************************************)
(* One item and its payload: store_context, update_context and the         *)
(* conversions of VectorDbClient between Payload and the Qdrant payload.   *)
(* agent_id and session_id are the same for every point and left out.      *)
(***************************************************************************)
\* the keys a caller gives in `metadata` (validate_metadata_key accepts any
\* key of letters, digits, '_' and '-'), and the JSON strings it gives as values
MetaKeys == {"tag", "text", "timestamp"}
JsonValues == {"a", "b"}
NoJson == "absent"
Metadata == [MetaKeys -> JsonValues \cup {NoJson}]

\* the fields parse_qdrant_payload does not take for metadata
ReservedKeys == {"text", "level", "timestamp", "agent_id", "session_id"}
PayloadKeys == {"text", "level", "timestamp"} \cup MetaKeys

\* qdrant Value, by kind
StringValue(s) == [kind |-> "string", s |-> s, i |-> 0]
IntegerValue(i) == [kind |-> "integer", s |-> "", i |-> i]
NoValue == [kind |-> "none", s |-> "", i |-> 0]

\* serde_json::to_string of a JSON string, and serde_json::from_str
to_string(value) == IF value = "a" THEN "\"a\"" ELSE "\"b\""
from_str(s) == IF s = "\"a\"" THEN "a" ELSE IF s = "\"b\"" THEN "b" ELSE NoJson

\* the text of the item
ItemText == "hello"

\* to_qdrant_payload: the fixed fields first, then every metadata entry
\* inserted under its own key
to_qdrant_payload(payload) ==
    [k \in PayloadKeys |->
       IF k \in MetaKeys /\ payload.metadata[k] # NoJson
         THEN StringValue(to_string(payload.metadata[k]))
       ELSE IF k = "text" THEN StringValue(payload.text)
       ELSE IF k = "level" THEN StringValue(payload.level)
       ELSE IF k = "timestamp" THEN IntegerValue(payload.timestamp)
       ELSE NoValue]

NoPayload == [text |-> "", level |-> "Immediate", timestamp |-> 0,
              metadata |-> [k \in MetaKeys |-> NoJson]]

\* parse_qdrant_payload: Err when a fixed field is missing or of another kind
parse_qdrant_payload(map) ==
    IF map["text"].kind # "string"
      THEN [ok |-> FALSE, error |-> "Missing text field", payload |-> NoPayload]
    ELSE IF map["level"].kind # "string"
      THEN [ok |-> FALSE, error |-> "Missing level field", payload |-> NoPayload]
    ELSE IF map["level"].s \notin LevelSet
      THEN [ok |-> FALSE, error |-> "Invalid level", payload |-> NoPayload]
    ELSE IF map["timestamp"].kind # "integer"
      THEN [ok |-> FALSE, error |-> "Missing timestamp field", payload |-> NoPayload]
    ELSE [ok |-> TRUE, error |-> "",
          payload |-> [text |-> map["text"].s,
                       level |-> map["level"].s,
                       timestamp |-> map["timestamp"].i,
                       metadata |-> [k \in MetaKeys |->
                                       IF k \notin ReservedKeys /\ map[k].kind = "string"
                                         THEN from_str(map[k].s)
                                         ELSE NoJson]]]

\* no point with the id in the collection, no entry with the id in the cache
NoPoint == [k \in PayloadKeys |-> NoValue]
NoContext == [present |-> FALSE, text |-> "", timestamp |-> 0,
              metadata |-> [k \in MetaKeys |-> NoJson]]

\* the Context update_l1_cache is given
ContextOf(payload) ==
    [present |-> TRUE, text |-> payload.text, timestamp |-> payload.timestamp,
     metadata |-> payload.metadata]

\* `point.payload.metadata.insert(key, value)` for every entry of `metadata`
MergeMetadata(stored, metadata) ==
    [k \in MetaKeys |-> IF metadata[k] # NoJson THEN metadata[k] ELSE stored[k]]

UpIdle ==
    [pc |-> "idle", op |-> "none", metadata |-> [k \in MetaKeys |-> NoJson],
     level |-> "Immediate", found |-> NoPayload, point |-> NoPayload, now |-> 0,
     res |-> "none", failed |-> FALSE,
     points_before |-> [l \in LevelSet |-> NoPoint], l1_before |-> NoContext]

\* HiRAGManagerV2::new over empty collections
UpInit ==
    /\ up_points = [l \in LevelSet |-> NoPoint]
    /\ up_l1 = NoContext
    /\ upd = UpIdle

\* the item is in no collection and not in the cache
ItemAbsent == up_l1 = NoContext /\ \A l \in LevelSet : up_points[l] = NoPoint

\* store_context, lines 166-238, once: the item is stored with any metadata
UpStoreContext ==
    /\ upd.pc = "idle"
    /\ ItemAbsent
    /\ \E level \in LevelSet, metadata \in Metadata, ok \in BOOLEAN :
         LET payload == [text |-> ItemText, level |-> level, timestamp |-> wall,
                         metadata |-> metadata]
         IN IF ok
              THEN /\ up_points' = [up_points EXCEPT ![level] = to_qdrant_payload(payload)]
                   /\ up_l1' = IF level = "Immediate" THEN ContextOf(payload) ELSE up_l1
                   /\ upd' = [UpIdle EXCEPT !.op = "store", !.res = "ok"]
              ELSE /\ upd' = [UpIdle EXCEPT !.op = "store", !.res = "insert_error"]
                   /\ UNCHANGED <<up_points, up_l1>>
    /\ UNCHANGED notUp

\* update_context, lines 377-388: the keys are validated, all of MetaKeys pass
UpUpdateBegin ==
    /\ upd.pc = "idle"
    /\ \E metadata \in Metadata :
         upd' = [UpIdle EXCEPT !.op = "update", !.pc = "find", !.metadata = metadata,
                               !.points_before = up_points, !.l1_before = up_l1]
    /\ UNCHANGED <<up_points, up_l1>>
    /\ UNCHANGED notUp

\* the first level, in the order of the loop, whose collection has the point
RECURSIVE FirstLevelWithPoint(_)
FirstLevelWithPoint(idx) ==
    IF idx > Len(Levels) THEN 0
    ELSE IF up_points[Levels[idx]] # NoPoint THEN idx
    ELSE FirstLevelWithPoint(idx + 1)

\* update_context, lines 390-401 and 426: get_point level after level until
\* one answers with the point; the metadata is merged and the timestamp set
UpUpdateFind ==
    /\ upd.pc = "find"
    /\ \E ok \in BOOLEAN :
         LET idx == FirstLevelWithPoint(1)
             parsed == parse_qdrant_payload(up_points[Levels[idx]])
         IN IF ~ok
              THEN upd' = [upd EXCEPT !.pc = "done", !.res = "get_error", !.failed = TRUE]
            ELSE IF idx = 0
              THEN upd' = [upd EXCEPT !.pc = "done", !.res = "not_found"]
            ELSE IF ~parsed.ok
              THEN upd' = [upd EXCEPT !.pc = "done", !.res = "get_error",
                                      !.level = Levels[idx]]
            ELSE upd' = [upd EXCEPT
                           !.pc = "insert", !.level = Levels[idx], !.now = wall,
                           !.found = parsed.payload,
                           !.point = [parsed.payload EXCEPT
                                        !.metadata = MergeMetadata(@, upd.metadata),
                                        !.timestamp = wall]]
    /\ UNCHANGED <<up_points, up_l1>>
    /\ UNCHANGED notUp

\* update_context, line 404: the point is inserted again
UpUpdateInsert ==
    /\ upd.pc = "insert"
    /\ \E ok \in BOOLEAN :
         IF ok
           THEN /\ up_points' = [up_points EXCEPT ![upd.level] = to_qdrant_payload(upd.point)]
                /\ upd' = IF upd.level = "Immediate"
                            THEN [upd EXCEPT !.pc = "l1"]
                            ELSE [upd EXCEPT !.pc = "done", !.res = "ok"]
           ELSE /\ upd' = [upd EXCEPT !.pc = "done", !.res = "insert_error",
                                      !.failed = TRUE]
                /\ UNCHANGED up_points
    /\ UNCHANGED up_l1
    /\ UNCHANGED notUp

\* update_context, lines 407-419: the L1 entry is replaced
UpUpdateL1 ==
    /\ upd.pc = "l1"
    /\ up_l1' = ContextOf(upd.point)
    /\ upd' = [upd EXCEPT !.pc = "done", !.res = "ok"]
    /\ UNCHANGED up_points
    /\ UNCHANGED notUp

\* the caller has the result
UpReturn ==
    /\ upd.pc = "done"
    /\ upd' = [UpIdle EXCEPT !.op = upd.op, !.res = upd.res]
    /\ UNCHANGED <<up_points, up_l1>>
    /\ UNCHANGED notUp

(***************************************************************************)
(* BackgroundTaskManager: the garbage collection of expired points         *)
(***************************************************************************)
\* the TTL a cycle over the level is given
Ttl(level) == IF level = "ShortTerm" THEN l2_ttl_secs ELSE l3_ttl_secs

GCIdle == [pc |-> "idle", level |-> "ShortTerm", cutoff_time |-> 0, ids |-> <<>>,
           deleted_total |-> 0]
GCInit == gc = GCIdle

\* the points of the collection the filter of the cycle matches: payload
\* "timestamp" <= cutoff_time (payload "level" is the level of the collection)
Expired(level, cutoff_time) ==
    {i \in Ids : points[level][i] # Absent /\ points[level][i] <= cutoff_time}

\* VectorStore::search with the filter and `limit`: at most SearchLimit of the
\* matching points, in any order (the query vector is all zeros)
GCSearchResults(level, cutoff_time) ==
    LET matching == Expired(level, cutoff_time)
        n == IF Cardinality(matching) < SearchLimit
               THEN Cardinality(matching) ELSE SearchLimit
    IN {r \in [1..n -> matching] : \A i, j \in 1..n : i # j => r[i] # r[j]}

\* `ids.chunks(BATCH_SIZE)`: the next chunk and what is left after it
ChunkWhole(ids) == ids
Chunk(ids) == SubSeq(ids, 1, IF Len(ids) < BATCH_SIZE THEN Len(ids) ELSE BATCH_SIZE)
AfterChunk(ids) == SubSeq(ids, Len(Chunk(ids)) + 1, Len(ids))

\* the elements of a sequence
Range(seq) == {seq[i] : i \in 1..Len(seq)}

\* cleanup_expired_l2_contexts lines 77-80, cleanup_expired_l3_contexts lines
\* 150-151: read the clock, compute the cutoff
GCBegin(level) ==
    /\ gc.pc = "idle"
    /\ gc' = [GCIdle EXCEPT !.pc = "search", !.level = level,
                            !.cutoff_time = wall - Ttl(level)]
    /\ UNCHANGED points
    /\ UNCHANGED notGC

\* lines 83-113 and 155-181: the search; Err and an empty result end the cycle
GCSearch(ok) ==
    /\ gc.pc = "search"
    /\ IF ~StoreAnswers(ok, gc.level)
         THEN gc' = GCIdle
         ELSE \E results \in GCSearchResults(gc.level, gc.cutoff_time) :
                gc' = IF results = <<>> THEN GCIdle
                      ELSE [gc EXCEPT !.pc = "delete", !.ids = results]
    /\ UNCHANGED points
    /\ UNCHANGED notGC

\* lines 115-131 and 183-198: delete_points for the next chunk; a failed
\* batch is skipped
GCDeleteChunk(ok) ==
    /\ gc.pc = "delete"
    /\ points' = IF StoreAnswers(ok, gc.level)
                   THEN [points EXCEPT ![gc.level] =
                           [i \in Ids |-> IF i \in Range(Chunk(gc.ids)) THEN Absent ELSE @[i]]]
                   ELSE points
    /\ gc' = IF AfterChunk(gc.ids) = <<>> THEN GCIdle
             ELSE [gc EXCEPT !.ids = AfterChunk(gc.ids),
                             !.deleted_total = IF StoreAnswers(ok, gc.level)
                                                 THEN @ + Len(Chunk(gc.ids)) ELSE @]
    /\ UNCHANGED notGC

\* run_l2_gc: the periodic task runs cleanup_expired_l2_contexts at every tick
\* of its interval
RunL2GC == GCBegin("ShortTerm")

\* cleanup_expired_l3_contexts is public and has no caller in the crate: a
\* cycle over LongTerm begins when some other code calls it
CallL3GC == GCBegin("LongTerm")

(***************************************************************************)
(* ContextRanker::rank_contexts, called on its own                         *)
(***************************************************************************)
\* the contexts a caller passes: of two ids, two levels, two similarities; the
\* timestamps are a day old, of this hour, and an hour ahead of the clock of
\* the ranker (written by a host whose clock runs ahead)
RankedContexts ==
    [id : 1..2, level : {"Immediate", "ShortTerm"}, relevance_score : {400, 900},
     token_count : {1}, timestamp : Timestamps \cup {current_time + 1},
     access_count : {0}]
RankInputs == UNION {[1..n -> RankedContexts] : n \in 0..MaxRanked}

RankIdle == [pc |-> "idle", contexts |-> <<>>, ranked |-> <<>>]
RankInit == rank = RankIdle

\* a caller passes a list to rank_contexts
RankCall ==
    /\ rank.pc = "idle"
    /\ \E contexts \in RankInputs :
         rank' = [RankIdle EXCEPT !.pc = "called", !.contexts = contexts]
    /\ UNCHANGED notRank

\* rank_contexts, lines 18-31
RankReturn ==
    /\ rank.pc = "called"
    /\ rank' = [rank EXCEPT !.pc = "done", !.ranked = RankContexts(rank.contexts)]
    /\ UNCHANGED notRank

\* the caller drops the list
RankDrop ==
    /\ rank.pc = "done"
    /\ rank' = RankIdle
    /\ UNCHANGED notRank

(***************************************************************************)
(* ShutdownCoordinator and ShutdownNotifier over tokio::sync::Notify       *)
(***************************************************************************)
Subscribers == 1..NumSubscribers

\* ShutdownCoordinator::new and a subscribe() for each task, each task spawned
\* with its notifier and not polled yet; `calls` counts shutdown()
ShutdownInit ==
    sd = [calls |-> 0, waiters |-> {}, task |-> [t \in Subscribers |-> "spawned"]]

\* ShutdownNotifier::wait, line 82, first poll: notified() is created and
\* polled, the task is registered as a waiter of the Notify
Wait(t) ==
    /\ sd.task[t] = "spawned"
    /\ sd' = [sd EXCEPT !.task[t] = "waiting", !.waiters = @ \cup {t}]
    /\ UNCHANGED notSd

\* ShutdownCoordinator::shutdown, lines 61-64: notify_waiters wakes the tasks
\* that are waiting now; it stores no permit for a later notified()
Shutdown ==
    /\ sd.calls < MaxShutdowns
    /\ sd' = [calls |-> sd.calls + 1, waiters |-> {},
              task |-> [t \in Subscribers |->
                          IF t \in sd.waiters THEN "notified" ELSE sd.task[t]]]
    /\ UNCHANGED notSd

\* ShutdownNotifier::wait: the woken task is polled and wait() returns
WaitReturn(t) ==
    /\ sd.task[t] = "notified"
    /\ sd' = [sd EXCEPT !.task[t] = "returned"]
    /\ UNCHANGED notSd

(***************************************************************************)
(* get_l1_contexts and retrieve_from_level, called on their own            *)
(***************************************************************************)

ReadIdle == [pc |-> "idle", level |-> "Immediate", order |-> <<>>, results |-> <<>>,
             max_tokens |-> 0, contexts |-> <<>>]
ReadInit == rd = ReadIdle

\* get_l1_contexts(max_tokens) is called: the cache holds any content, which
\* the sort of lines 126-133 (manager.rs: the deque, line 95) lists newest first
GetL1ContextsCall ==
    /\ rd.pc = "idle"
    /\ \E order \in SortedNewestFirst, max_tokens \in 0..MaxTokens :
         rd' = [ReadIdle EXCEPT !.pc = "l1", !.order = order,
                                !.max_tokens = max_tokens]
    /\ UNCHANGED notRead

\* retrieve_from_level(level, .., max_tokens) is called and the search of
\* lines 44-52 has answered
RetrieveFromLevelCall ==
    /\ rd.pc = "idle"
    /\ \E level \in {"ShortTerm", "LongTerm"}, results \in SearchResults,
          max_tokens \in 0..MaxTokens :
         rd' = [ReadIdle EXCEPT !.pc = "level", !.level = level,
                                !.results = results, !.max_tokens = max_tokens]
    /\ UNCHANGED notRead

\* the loop of either function ends and the list is returned
ReadReturn ==
    /\ rd.pc \in {"l1", "level"}
    /\ rd' = [rd EXCEPT !.pc = "returned",
                        !.contexts = IF rd.pc = "l1"
                                       THEN GetL1Contexts(rd.order, rd.max_tokens)
                                       ELSE RetrieveFromLevel(rd.level, rd.results,
                                                              rd.max_tokens)]
    /\ UNCHANGED notRead

ReadDrop ==
    /\ rd.pc = "returned"
    /\ rd' = ReadIdle
    /\ UNCHANGED notRead

(***************************************************************************)
(* The retry loops of EmbeddingClient::make_request and                    *)
(* EmbeddingClientV2::make_request: attempts and the sleeps between them.  *)
(* Durations are milliseconds.                                             *)
(***************************************************************************)

\* the failures of an attempt that are retried (a 401 returns at once)
RetriedFailures == {"network", "parse", "rate_limited", "api_error"}

RECURSIVE Pow2(_)
Pow2(n) == IF n = 0 THEN 1 ELSE 2 * Pow2(n - 1)

\* client.rs, lines 111-113: 100 * 2^(attempts - 1), at most 30 000
V1Delay(attempts) == Min(100 * Pow2(attempts - 1), 30000)

\* client.rs, lines 116-117: `(delay as f64 * 0.25 * (random::<f64>() - 0.5))
\* as u64` with random in [0, 1): the product lies in [-delay/8, delay/8),
\* and the cast makes 0 of a negative one; the smallest and the greatest
\* jitter the cast can give
V1Jitters(delay) == {0, (delay * 125 + 999) \div 1000 - 1}

\* client_v2.rs, lines 186, 221 and 241: 100 * 2^attempts; line 208:
\* 500 * 2^attempts for a 429
V2Backoff(failure, attempts) ==
    IF failure = "rate_limited" THEN 500 * Pow2(attempts) ELSE 100 * Pow2(attempts)

\* client_v2.rs, line 209: `rand::random::<u64>() % 1000` for a 429, none
\* for the other failures; the smallest and the greatest
V2Jitters(failure) == IF failure = "rate_limited" THEN {0, 999} ELSE {0}

BackoffIdle == [pc |-> "idle", client |-> "EmbeddingClient", max_retries |-> 0,
                attempts |-> 0, failure |-> "none", backoff |-> 0, delay |-> 0]
BackoffInit == bo = BackoffIdle

\* make_request is called on a client configured with max_retries, which
\* validate_embedding_config keeps at 10 or less
MakeRequestCall ==
    /\ bo.pc = "idle"
    /\ \E client \in {"EmbeddingClient", "EmbeddingClientV2"},
          max_retries \in 0..MAX_RETRIES :
         bo' = [BackoffIdle EXCEPT
                  !.client = client, !.max_retries = max_retries,
                  !.pc = IF client = "EmbeddingClient" /\ ~(0 < max_retries)
                           THEN "done" ELSE "attempt"]
    /\ UNCHANGED notBackoff

\* an attempt succeeds, or fails with a 401: make_request returns
AttemptReturns ==
    /\ bo.pc = "attempt"
    /\ bo' = [bo EXCEPT !.pc = "done", !.attempts = @ + 1]
    /\ UNCHANGED notBackoff

\* an attempt fails: EmbeddingClient sleeps if attempts < max_retries and
\* leaves the loop when attempts reaches max_retries; EmbeddingClientV2
\* sleeps if attempts <= max_retries and returns the error otherwise
AttemptFails ==
    /\ bo.pc = "attempt"
    /\ \E failure \in RetriedFailures :
         LET attempts == bo.attempts + 1
         IN IF bo.client = "EmbeddingClient"
              THEN IF attempts < bo.max_retries
                     THEN \E jitter \in V1Jitters(V1Delay(attempts)) :
                            bo' = [bo EXCEPT !.pc = "sleep", !.attempts = attempts,
                                             !.failure = failure,
                                             !.backoff = V1Delay(attempts),
                                             !.delay = V1Delay(attempts) + jitter]
                     ELSE bo' = [bo EXCEPT !.pc = "done", !.attempts = attempts,
                                           !.failure = failure]
              ELSE IF attempts <= bo.max_retries
                     THEN \E jitter \in V2Jitters(failure) :
                            bo' = [bo EXCEPT !.pc = "sleep", !.attempts = attempts,
                                             !.failure = failure,
                                             !.backoff = V2Backoff(failure, attempts),
                                             !.delay = V2Backoff(failure, attempts) + jitter]
                     ELSE bo' = [bo EXCEPT !.pc = "done", !.attempts = attempts,
                                           !.failure = failure]
    /\ UNCHANGED notBackoff

\* tokio::time::sleep returns and the loop makes the next attempt
SleepReturns ==
    /\ bo.pc = "sleep"
    /\ bo' = [bo EXCEPT !.pc = "attempt"]
    /\ UNCHANGED notBackoff

MakeRequestReturn ==
    /\ bo.pc = "done"
    /\ bo' = BackoffIdle
    /\ UNCHANGED notBackoff

(***************************************************************************)
(* Specifications                                                          *)
(***************************************************************************)
\* a breaker and a manager just constructed, the configuration the default one
Init == CBInit /\ MgrInit /\ RtDefault /\ EmbDefault /\ DynIdle /\ UpInit /\ GCInit /\ RankInit /\ ShutdownInit /\ ReadInit /\ BackoffInit

\* the breaker, one caller at a time: every call returns before the next starts
NextCBSeq == (\E p \in {1} : CBStep(p)) \/ Tick
SpecCBSeq == Init /\ [][NextCBSeq]_vars

\* the breaker, NumProcs callers interleaving at every await and atomic access
NextCB == (\E p \in Procs : CBStep(p)) \/ Tick
SpecCB == Init /\ [][NextCB]_vars

\* the breaker shared by two tasks: caller 1 asks for admission and reports
\* failures, caller 2 reports successes, interleaving at every await and
\* atomic access
NextCBRace == AllowRequest(1) \/ RecordFailure(1) \/ RecordSuccess(2) \/ Tick
SpecCBRace == Init /\ [][NextCBRace]_vars

\* the manager, one caller at a time
NextMgrSeq == (\E p \in {1} : MgrStep(p)) \/ WallTick
SpecMgrSeq == Init /\ [][NextMgrSeq]_vars

\* the manager, NumProcs callers interleaving at every await and DashMap access
NextMgr == (\E p \in Procs : MgrStep(p)) \/ WallTick
SpecMgr == Init /\ [][NextMgr]_vars

\* store_context alone, one call after the other, under any vector_size
StoreContext(p) ==
    \/ StoreContextBegin(p)
    \/ InsertPoints(p)
    \/ L1Insert(p)
    \/ L1ReadLen(p)
    \/ L1Scan(p)
    \/ L1Remove(p)
InitStore ==
    CBInit /\ MgrFresh /\ vector_size \in Dimensions /\ RtDefault /\ EmbDefault /\ DynIdle /\ UpInit /\ GCInit /\ RankInit /\ ShutdownInit /\ ReadInit /\ BackoffInit
NextStore == (\E p \in {1} : StoreContext(p)) \/ WallTick
SpecStore == InitStore /\ [][NextStore]_vars

\* store_context alone, NumProcs callers interleaving at every await and at
\* every access of the DashMap and of the counter
NextStoreRace == (\E p \in Procs : StoreContext(p)) \/ WallTick
SpecStoreRace == Init /\ [][NextStoreRace]_vars

\* retrieve_context, one call after the other, under any configuration
InitRetrieve == CBInit /\ MgrInit /\ RtInit /\ EmbDefault /\ DynIdle /\ UpInit /\ GCInit /\ RankInit /\ ShutdownInit /\ ReadInit /\ BackoffInit
NextRetrieve ==
    RetrieveCall \/ RetrieveBegin \/ RetrieveLevel \/ TaskJoin \/ Respond \/ RetrieveEnd
SpecRetrieve == InitRetrieve /\ [][NextRetrieve]_vars

\* calculate_dynamic_allocations, call after call, under any strategy
InitDyn ==
    /\ CBInit /\ MgrInit /\ EmbDefault /\ DynIdle /\ UpInit /\ GCInit /\ RankInit /\ ShutdownInit /\ ReadInit /\ BackoffInit
    /\ rt_manager = "HiRAGManagerV2"
    /\ rt_alloc \in Strategies
    /\ rt_tokens = [i \in RtIds |-> 1]
    /\ RtStart
NextDyn == DynAllocate \/ DynReturn
SpecDyn == InitDyn /\ [][NextDyn]_vars

\* one item stored and then updated again and again, the clock advancing
NextUpdate ==
    \/ UpStoreContext
    \/ UpUpdateBegin
    \/ UpUpdateFind
    \/ UpUpdateInsert
    \/ UpUpdateL1
    \/ UpReturn
    \/ WallTick
SpecUpdate == Init /\ [][NextUpdate]_vars

\* store_context and update_context by one caller, interleaved at every await
\* with the GC cycles; the vector store may fail any call
UpdateContext(p) == UpdateContextBegin(p) \/ UpdateContextGet(p)
NextGC ==
    \/ \E p \in {1} : StoreContext(p)
    \/ \E p \in {1} : UpdateContext(p)
    \/ RunL2GC
    \/ CallL3GC
    \/ \E ok \in BOOLEAN : GCSearch(ok)
    \/ \E ok \in BOOLEAN : GCDeleteChunk(ok)
    \/ WallTick
SpecGC == Init /\ [][NextGC]_vars

\* the periodic task as `start` spawns it, over a vector store that answers
\* every call of the GC, while items are stored: the interval keeps ticking
\* and every request of a cycle gets its answer
NextGCLive ==
    \/ \E p \in {1} : StoreContext(p)
    \/ RunL2GC
    \/ GCSearch(TRUE)
    \/ GCDeleteChunk(TRUE)
    \/ WallTick
SpecGCLive ==
    /\ Init
    /\ [][NextGCLive]_vars
    /\ WF_vars(RunL2GC)
    /\ WF_vars(GCSearch(TRUE))
    /\ WF_vars(GCDeleteChunk(TRUE))

\* one caller of a HiRAGManagerV2 who passes any text and any max_tokens, one
\* call at a time: the queries first, then the items to store
QueryOfSession == mgr[1] = MgrIdleLocals /\ RetrieveCall
StoreOfSession == rt_pc = "idle" /\ StoreContextAnyText(1)
NextValidate ==
    \/ QueryOfSession
    \/ RetrieveBegin
    \/ RetrieveLevel
    \/ TaskJoin
    \/ Respond
    \/ RetrieveEnd
    \/ StoreOfSession
    \/ InsertPoints(1)
    \/ L1Insert(1)
    \/ L1ReadLen(1)
    \/ L1Scan(1)
    \/ L1Remove(1)
SpecValidate == Init /\ [][NextValidate]_vars

\* the tasks that wait for the shutdown and the calls of shutdown(), in any
\* order
NextShutdown ==
    \/ \E t \in Subscribers : Wait(t)
    \/ \E t \in Subscribers : WaitReturn(t)
    \/ Shutdown
SpecShutdown == Init /\ [][NextShutdown]_vars
\* the runtime polls a task that was spawned and a task that was woken
SpecShutdownLive ==
    /\ Init
    /\ [][NextShutdown]_vars
    /\ \A t \in Subscribers : WF_vars(Wait(t)) /\ WF_vars(WaitReturn(t))

\* rank_contexts, call after call, on any list
NextRank == RankCall \/ RankReturn \/ RankDrop
SpecRank == Init /\ [][NextRank]_vars

\* the embedding clients without a breaker, one call after the other
InitEmbed == CBInit /\ MgrInit /\ RtDefault /\ EmbInit /\ ~emb_breaker /\ DynIdle /\ UpInit /\ GCInit /\ RankInit /\ ShutdownInit /\ ReadInit /\ BackoffInit
NextEmbed ==
    \/ EmbedSingleBegin \/ EmbedBatchBeginV1 \/ EmbedBatchBeginV2 \/ EmbChunk
    \/ EmbMakeRequestV1 \/ EmbTryRequest \/ EmbExhausted
    \/ EmbNoBreaker \/ EmbSend \/ EmbDecide
    \/ EmbSingleResponse \/ EmbBatchResponseV1 \/ EmbBatchResponseV2
    \/ EmbReturn \/ CacheExpire
SpecEmbed == InitEmbed /\ [][NextEmbed]_vars

\* embed_single of EmbeddingClientV2 with its breaker, one call after the
\* other; the breaker's methods run to their end inside the call that awaits
\* them, and the clock moves at any time
InitEmbedCB ==
    /\ CBInit /\ MgrInit /\ RtDefault /\ EmbInit /\ DynIdle /\ UpInit /\ GCInit /\ RankInit /\ ShutdownInit /\ ReadInit /\ BackoffInit
    /\ emb_breaker /\ emb_batch_size = MaxBatch
NextEmbedCB ==
    \/ EmbedSingleBegin
    \/ EmbAllowRequest \/ EmbAllowed \/ EmbSend
    \/ EmbRecordSuccess \/ EmbSuccessRecorded \/ EmbRecordFailure
    \/ EmbFailureRecorded \/ EmbDecide
    \/ EmbSingleResponse
    \/ EmbReturn \/ CacheExpire
    \/ AllowRequestMatch(1) \/ AllowRequestReadLft(1) \/ AllowRequestWriteState(1)
    \/ AllowRequestStore(1)
    \/ RecordSuccessReset(1) \/ RecordSuccessFetchAdd(1) \/ RecordSuccessWriteClosed(1)
    \/ RecordSuccessClearFailures(1) \/ RecordSuccessClearSuccesses(1)
    \/ RecordFailureFetchAdd(1) \/ RecordFailureWriteOpen(1) \/ RecordFailureWriteLft(1)
    \/ RecordFailureStore(1)
    \/ Tick
SpecEmbedCB == InitEmbedCB /\ [][NextEmbedCB]_vars

\* the two token-bounded reads, call after call, over any stored texts
NextRead == GetL1ContextsCall \/ RetrieveFromLevelCall \/ ReadReturn \/ ReadDrop
SpecRead == InitRetrieve /\ [][NextRead]_vars

\* the retry loop of either embedding client, call after call
NextBackoff ==
    MakeRequestCall \/ AttemptReturns \/ AttemptFails \/ SleepReturns \/ MakeRequestReturn
SpecBackoff == Init /\ [][NextBackoff]_vars

\* the breaker shared by two tasks: caller 1 reports the outcomes of its
\* calls, caller 2 asks for admission, interleaving at every await and
\* atomic access
NextCBOpen == RecordFailure(1) \/ RecordSuccess(1) \/ AllowRequest(2) \/ Tick
SpecCBOpen == Init /\ [][NextCBOpen]_vars

\* the breaker shared by two tasks: caller 1 reports failures, caller 2
\* resets the breaker and asks for admission, interleaving at every await
\* and atomic access
NextCBReset == RecordFailure(1) \/ Reset(2) \/ AllowRequest(2) \/ Tick
SpecCBReset == Init /\ [][NextCBReset]_vars

\* update_context and delete_context racing: caller 1 stores items, then
\* updates them while caller 2 deletes them, interleaving at every await and
\* at every access of the DashMap and of the counter
DeleteContext(p) == DeleteContextBegin(p) \/ DeleteContextPoints(p) \/ DeleteContextL1(p)
StoreBeforeRace == only_ingests /\ StoreContextBegin(1)
NextUpdateDelete ==
    \/ StoreBeforeRace
    \/ InsertPoints(1) \/ L1Insert(1) \/ L1ReadLen(1) \/ L1Scan(1) \/ L1Remove(1)
    \/ UpdateContext(1) \/ DeleteContext(2) \/ WallTick
SpecUpdateDelete == Init /\ [][NextUpdateDelete]_vars

(***************************************************************************)
(* Claims about the circuit breaker                                        *)
(***************************************************************************)
\* no caller is inside a method of the breaker
CBIdle == \A p \in Procs : cb_pc[p] = "idle"

\* caller p returns from allow_request in this step
AllowRequestReturns(p) ==
    cb_pc[p] \in {"ar_match", "ar_read_lft", "ar_store"} /\ cb_pc'[p] = "idle"

\* C7: between calls the breaker is Closed exactly while fewer than
\* failure_threshold record_failure calls were made in Closed since the last
\* record_success there (or since it was closed): the call that makes them
\* failure_threshold leaves it Open, and fewer never open it.
C7_OpensAtThreshold ==
    CBIdle => /\ state = "Closed" <=> since_success < failure_threshold
              /\ state = "Closed" => failure_count = since_success

\* C7 witness: the breaker was opened by the call that made failure_threshold
\* failures in a row, after an earlier failure had been wiped by a success.
C7_Witness ==
    /\ CBIdle
    /\ state = "Open"
    /\ cb_seen[1] = "Closed"
    /\ since_success = failure_threshold
    /\ total_failures = failure_threshold + 1

\* C8: an allow_request that read Closed or HalfOpen returns true and leaves the
\* state alone; one that read Open returns false and leaves it Open while less
\* than the timeout has passed since the opening was recorded; once the timeout
\* has passed it returns true and leaves the state HalfOpen.
C8_AllowRequestPerState ==
    [][\A p \in Procs : AllowRequestReturns(p) =>
         /\ cb_seen[p] \in {"Closed", "HalfOpen"} =>
                cb_ret'[p] = "true" /\ state' = cb_seen[p]
         /\ cb_seen[p] = "Open" /\ now - opened_at < OpenTimeout =>
                cb_ret'[p] = "false" /\ state' = "Open"
         /\ cb_seen[p] = "Open" /\ now - opened_at >= OpenTimeout =>
                cb_ret'[p] = "true" /\ state' = "HalfOpen"]_vars

\* C8 witness: a call that found the breaker Open was admitted and left it HalfOpen.
C8_Witness ==
    /\ CBIdle
    /\ cb_seen[1] = "Open"
    /\ cb_ret[1] = "true"
    /\ state = "HalfOpen"
    /\ now - opened_at >= OpenTimeout

\* C9 as stated: from the Open->HalfOpen step until an outcome is recorded, at
\* most one allow_request returns true.
C9_SingleProbe == probe_window => window_admits <= 1

\* C9 amended: from the Open->HalfOpen step until an outcome is recorded every
\* allow_request returns true, the first one included: the probes are not
\* limited to one.
C9_WindowAdmitsAll ==
    probe_window => /\ window_admits = window_calls
                    /\ CBIdle => window_admits >= 1

\* C9 witness: two calls were admitted in one probe window.
C9_Witness == probe_window /\ CBIdle /\ window_admits = 2 /\ state = "HalfOpen"

\* caller p returns from a record_success that read HalfOpen
HalfOpenSuccessReturns(p) ==
    /\ cb_seen[p] = "HalfOpen"
    /\ cb_pc[p] \in {"rs_fetch_add", "rs_clear_successes"}
    /\ cb_pc'[p] = "idle"

\* caller p returns from a record_failure that read HalfOpen
HalfOpenFailureReturns(p) == cb_pc[p] = "rf_store" /\ cb_pc'[p] = "idle"

\* C10: a record_success in HalfOpen that is the success_threshold-th one since
\* HalfOpen was entered leaves the breaker Closed with both counters at 0, an
\* earlier one leaves it HalfOpen; a record_failure in HalfOpen leaves it Open
\* with the opening time recorded and the success count at 0.
C10_HalfOpenTransitions ==
    [][\A p \in Procs :
         /\ HalfOpenSuccessReturns(p) =>
                IF ho_successes >= success_threshold
                  THEN /\ ho_successes = success_threshold
                       /\ state' = "Closed"
                       /\ failure_count' = 0
                       /\ success_count' = 0
                  ELSE state' = "HalfOpen" /\ success_count' = ho_successes
         /\ HalfOpenFailureReturns(p) =>
                /\ state' = "Open"
                /\ opened_at # NoTime
                /\ last_failure_time' = opened_at
                /\ success_count' = 0]_vars

\* C10 witness: the breaker closed on the success_threshold-th success, after a
\* failure in HalfOpen had sent it back to Open once.
C10_Witness ==
    /\ CBIdle
    /\ state = "Closed"
    /\ cb_seen[1] = "HalfOpen"
    /\ ho_successes = success_threshold
    /\ total_failures = failure_threshold + 1
    /\ failure_count = 0
    /\ success_count = 0

\* C11: under any interleaving of the callers the state goes from Closed to
\* Open only in a step in which the consecutive-failure count has reached
\* failure_threshold; a record_failure that read HalfOpen does not open a
\* breaker that a record_success has closed in between
C11_OpensOnlyAtThreshold ==
    [][state = "Closed" /\ state' = "Open" => failure_count >= failure_threshold]_vars

\* C38: once the state has gone to Open at time t, it does not leave Open
\* before t + timeout, whatever the interleaving of allow_request,
\* record_success and record_failure (an allow_request that reads Open
\* returns true only after it has written HalfOpen)
C38_OpenLastsTimeout ==
    [][state = "Open" /\ state' # "Open" => now - open_since >= OpenTimeout]_vars

\* C39: whenever the breaker is Open and no call is under way, an opening
\* time is recorded, so that an allow_request made once the timeout has
\* elapsed moves the breaker to HalfOpen and returns true; this with reset
\* interleaving with record_failure as well
C39_NeverStuckOpen ==
    state = "Open" /\ (\A p \in Procs : cb_pc[p] = "idle")
        => last_failure_time # NoTime

(***************************************************************************)
(* Claims about the L1 cache and the write operations                      *)
(***************************************************************************)
\* no caller is inside a method of the manager
MgrIdle == \A p \in Procs : mgr[p].pc = "idle"

L1Ids == {i \in Ids : l1_cache[i] # Absent}
ImmediateIds == {i \in Ids : points["Immediate"][i] # Absent}

\* the k items of S created last: ids are handed out in the order of creation
MostRecent(S, k) == {i \in S : Cardinality({j \in S : j > i}) < k}

\* C4: after store_context(Immediate) calls made one after the other, and no
\* other call, L1 holds at most l1_size entries and they are the l1_size most
\* recently created of the items stored.
C4_L1KeepsMostRecent ==
    only_ingests /\ MgrIdle =>
        /\ Cardinality(L1Ids) <= L1Size
        /\ L1Ids = MostRecent(ImmediateIds, L1Size)

\* C5: a store_context call touches L1 only after its insert_points returned Ok
\* and only for the Immediate level; when the embedding or insert_points fails
\* it returns that error and has not touched L1.
C5_WriteThrough ==
    \A p \in Procs : mgr[p].op = "store" =>
        /\ mgr[p].touched => mgr[p].inserted /\ mgr[p].level = "Immediate"
        /\ mgr[p].touched /\ mgr[p].pc = "l1_len" =>
               points["Immediate"][mgr[p].id] # Absent
        /\ mgr[p].pc = "idle" =>
             /\ mgr[p].res \in {"embedding_error", "validation_error", "insert_error", "ok"}
             /\ mgr[p].res = "ok" <=> mgr[p].inserted
             /\ mgr[p].res # "ok" => ~mgr[p].touched
             /\ mgr[p].level # "Immediate" => ~mgr[p].touched

\* C5 witness: a store_context(Immediate) returned Ok after writing the point
\* and then pushing it into L1.
C5_Witness ==
    \E p \in Procs :
        /\ mgr[p].op = "store"
        /\ mgr[p].pc = "idle"
        /\ mgr[p].res = "ok"
        /\ mgr[p].level = "Immediate"
        /\ mgr[p].touched
        /\ L1Ids # {}

\* C6: every entry of L1 has a point with the same id in the collection of the
\* Immediate level, in every reachable state.
C6_L1EntriesAreStored ==
    \A i \in L1Ids : coll_exists["Immediate"] /\ points["Immediate"][i] # Absent
\* C17: when the embedding provider returns a vector whose length is not the
\* configured vector_size, store_context fails and writes nothing: no point
\* is inserted and L1 is not touched (so every point store_context writes has
\* a vector of length vector_size)
C17_Dimension ==
    \A p \in Procs :
        mgr[p].op = "store" /\ mgr[p].len \notin {0, vector_size}
            => /\ ~mgr[p].inserted
               /\ ~mgr[p].touched
               /\ mgr[p].pc = "idle" => mgr[p].res # "ok"

\* C22: when a delete_context(id) has returned Ok, no tier collection holds a
\* point with that id and L1 holds no entry with it (whether the id was
\* stored, already deleted, or never stored)
C22_DeleteRemoves ==
    \A p \in Procs :
        mgr[p].op = "delete" /\ mgr[p].pc = "idle" /\ mgr[p].res = "ok" =>
            /\ \A l \in LevelSet : points[l][mgr[p].id] = Absent
            /\ l1_cache[mgr[p].id] = Absent

\* C23: no step of a clear_level(t) call changes the collection of another
\* tier, and the step in which the call returns Ok leaves the collection of t
\* existing and without points and, for t = Immediate, L1 without entries and
\* its size counter at 0 (so a clear_level(t) that follows and returns Ok
\* leaves tier t empty as well)
C23_ClearTier ==
    [][\A p \in Procs : mgr[p].op = "clear" /\ mgr[p].pc # "idle" =>
         /\ \A l \in LevelSet \ {mgr[p].level} :
              points'[l] = points[l] /\ coll_exists'[l] = coll_exists[l]
         /\ mgr'[p].pc = "idle" /\ mgr'[p].res = "ok" =>
              /\ coll_exists'[mgr[p].level]
              /\ \A i \in Ids : points'[mgr[p].level][i] = Absent
              /\ mgr[p].level = "Immediate" =>
                   /\ \A i \in Ids : l1_cache'[i] = Absent
                   /\ l1_cache_size' = 0]_vars

\* C23 witness: clear_level(Immediate) returned Ok after items were stored in
\* Immediate (and pushed into L1) and in another tier, whose point is still there
C23_Witness ==
    \E p \in Procs :
        /\ mgr[p].op = "clear" /\ mgr[p].pc = "idle" /\ mgr[p].res = "ok"
        /\ mgr[p].level = "Immediate" /\ mgr[p].touched
        /\ next_id > 2
        /\ \A i \in Ids : points["Immediate"][i] = Absent /\ l1_cache[i] = Absent
        /\ \E i \in Ids : points["ShortTerm"][i] # Absent

\* the level whose collection held the item when the update_context call began
LevelBefore == CHOOSE l \in LevelSet : upd.points_before[l] # NoPoint

\* C24: an update_context(id, m) for an item that is in no collection and not
\* in L1 returns the not-found error and leaves the collections and L1 as they
\* were; for an item that is in a collection it returns Ok (the vector store
\* answering), the point is still in that collection and only there, with
\* its text, with m merged into its metadata key by key, and with the clock
\* of the update as its timestamp
C24_UpdateContext ==
    upd.op = "update" /\ upd.pc = "done" /\ ~upd.failed =>
        IF \A l \in LevelSet : upd.points_before[l] = NoPoint
          THEN /\ ~upd.l1_before.present => upd.res = "not_found"
               /\ up_points = upd.points_before
               /\ up_l1 = upd.l1_before
          ELSE LET before == parse_qdrant_payload(upd.points_before[LevelBefore])
                   after == parse_qdrant_payload(up_points[LevelBefore])
               IN /\ upd.res = "ok"
                  /\ \A l \in LevelSet \ {LevelBefore} : up_points[l] = NoPoint
                  /\ after.ok
                  /\ after.payload.text = ItemText
                  /\ after.payload.level = LevelBefore
                  /\ after.payload.metadata =
                        [k \in MetaKeys |-> IF upd.metadata[k] # NoJson
                                              THEN upd.metadata[k]
                                              ELSE before.payload.metadata[k]]
                  /\ after.payload.timestamp = upd.now

\* C25: when an initialize() has returned Ok the collections of the three
\* tiers exist
C25_InitializeEnsures ==
    \A p \in Procs :
        mgr[p].op = "initialize" /\ mgr[p].pc = "idle" /\ mgr[p].res = "ok" =>
            \A l \in LevelSet : coll_exists[l]

\* C30: when the store_context(Immediate) calls of several callers of a
\* HiRAGManagerV2 have all returned, and no other call was made, L1 holds
\* min(l1_size, number of items inserted) entries, they are the most recently
\* created ones, and the size counter equals the number of entries
C30_ConcurrentEviction ==
    only_ingests /\ MgrIdle =>
        /\ Cardinality(L1Ids) = Min(L1Size, Cardinality(ImmediateIds))
        /\ L1Ids = MostRecent(ImmediateIds, L1Size)
        /\ l1_cache_size = Cardinality(L1Ids)

\* C40: update_context never brings back an item whose deletion has taken
\* effect: the insert_points of an update does not create a point that is
\* in no collection at that moment
C40_DeleteNotUndone ==
    [][\A p \in Procs :
         mgr[p].op = "update" /\ mgr[p].pc = "insert"
           /\ (\A l \in LevelSet : points[l][mgr[p].id] = Absent)
           => \A l \in LevelSet : points'[l][mgr[p].id] = Absent]_vars

(***************************************************************************)
(* Claims about retrieve_context                                           *)
(***************************************************************************)
\* the last retrieve_context call has returned a response
Responded == rt_pc = "done" /\ rt_res = "ok"

\* C1: every response keeps to the budget of its request: total_tokens, which
\* is the sum of the token counts of the contexts returned, is at most
\* max_tokens
C1_BudgetConservation ==
    Responded =>
      /\ rt_response.total_tokens <= rt_max_tokens
      /\ rt_response.total_tokens = SumTokens(rt_response.contexts)

\* a response from which the token limit has removed a context
C1_Witness ==
    /\ Responded
    /\ rt_response.contexts # <<>>
    /\ SumTokens(DeduplicateContexts(rt_all)) > rt_max_tokens

\* C2: the ids of a response of HiRAGManagerV2 are pairwise distinct, and the context returned
\* for an id is the first one of that id in the merge order
C2_Dedup ==
    Responded /\ rt_manager = "HiRAGManagerV2" =>
      LET contexts == rt_response.contexts
      IN /\ \A i, j \in 1..Len(contexts) : i # j => contexts[i].id # contexts[j].id
         /\ \A i \in 1..Len(contexts) :
              \E k \in 1..Len(rt_all) :
                /\ rt_all[k].id = contexts[i].id
                /\ \A j \in 1..(k - 1) : rt_all[j].id # contexts[i].id
                /\ contexts[i] = [rt_all[k] EXCEPT
                                    !.relevance_score = CalculateScore(rt_all[k])]

\* a response with a context whose id two sources produced, the L1 cache and a
\* search, and another whose id a level listed twice produced twice
C2_Witness ==
    /\ Responded
    /\ rt_manager = "HiRAGManagerV2"
    /\ \E i \in 1..Len(rt_response.contexts), j, k \in 1..Len(rt_all) :
         /\ j < k
         /\ rt_all[j].id = rt_response.contexts[i].id
         /\ rt_all[k].id = rt_response.contexts[i].id
         /\ rt_all[j].level = "Immediate"
         /\ rt_all[k].level # "Immediate"

\* C3: the contexts of a response are in non-increasing order of composite
\* score, the token limit applied
C3_Ordering ==
    Responded =>
      LET contexts == rt_response.contexts
      IN \A i \in 1..(Len(contexts) - 1) :
           contexts[i].relevance_score >= contexts[i + 1].relevance_score

\* a response of two contexts or more, of different scores, that the merge
\* order did not have in score order and that the token limit has cut
C3_Witness ==
    /\ Responded
    /\ Len(rt_response.contexts) >= 2
    /\ rt_response.contexts[1].relevance_score
         > rt_response.contexts[Len(rt_response.contexts)].relevance_score
    /\ Len(rt_response.contexts) < Len(DeduplicateContexts(rt_all))
    /\ \E i, j \in 1..Len(rt_all) :
         i < j /\ CalculateScore(rt_all[i]) < CalculateScore(rt_all[j])

\* C18: a retrieve_context of HiRAGManagerV2 in which the search of a tier
\* failed ends with Ok; its response holds contexts of the tiers that
\* answered only, and total_searched is the number of contexts those tiers
\* returned
C18_PartialFailure ==
    rt_manager = "HiRAGManagerV2" /\ rt_pc = "done" /\ rt_failed # {}
        => /\ rt_res = "ok"
           /\ \A i \in 1..Len(rt_response.contexts) :
                \E k \in 1..Len(rt_answers) :
                    /\ rt_answers[k].id = rt_response.contexts[i].id
                    /\ rt_answers[k].level = rt_response.contexts[i].level
           /\ rt_response.total_searched = Len(rt_answers)

\* the search of one tier failed, another tier answered with contexts, and
\* the response carries some of them
C18_Witness ==
    /\ rt_manager = "HiRAGManagerV2"
    /\ rt_pc = "done"
    /\ rt_res = "ok"
    /\ rt_failed = {"ShortTerm"}
    /\ rt_request_levels = <<"ShortTerm", "LongTerm">>
    /\ rt_response.total_searched > 0
    /\ rt_response.contexts # <<>>

\* C19: a retrieve_context that asks for the Immediate tier only, over an L1
\* cache holding a single item whose token_count is request.max_tokens,
\* returns that item, with total_tokens = max_tokens
C19_BudgetExactlyFits ==
    /\ Responded
    /\ rt_request_levels = <<"Immediate">>
    /\ Len(rt_l1) = 1
    /\ rt_tokens[rt_l1[1][1]] = rt_max_tokens
    => /\ Len(rt_response.contexts) = 1
       /\ rt_response.contexts[1].id = rt_l1[1][1]
       /\ rt_response.total_tokens = rt_max_tokens

\* the sum of the three allocations
Sum3(t) == t[1] + t[2] + t[3]

\* the tiers that have available contexts, in a call that has returned
ActiveTiers == {i \in 1..3 : dyn_available[i] > 0}

\* the floor allocation of tier i: floor(max_tokens * a_i)
FloorAllocation(i) == (dyn_max_tokens * rt_alloc[i]) \div Scale

C21_QueryTimeRedistribution ==
    /\ rt_pc = "done"
    /\ rt_res = "ok"
    /\ rt_request_levels = <<>>
    /\ rt_failed = {}
    => LET dynamic == CalculateDynamicAllocations(
                          rt_max_tokens,
                          IF "Immediate" \in rt_empty THEN 0 ELSE 1,
                          IF "ShortTerm" \in rt_empty THEN 0 ELSE 1,
                          IF "LongTerm" \in rt_empty THEN 0 ELSE 1)
       IN \A i \in 1..3 : Levels[i] \notin rt_empty => rt_used[Levels[i]] = dynamic[i]

\* the candidates of the last call in ranked order
RankedCandidates ==
    RankContexts(IF rt_manager = "HiRAGManagerV2" THEN DeduplicateContexts(rt_all)
                 ELSE rt_all)

\* C33: the contexts of a response are a prefix of the ranked candidates, cut
\* at the first candidate whose token_count would take the sum above max_tokens
C33_PrefixCut ==
    Responded =>
      LET contexts == rt_response.contexts
          n == Len(contexts)
      IN /\ n <= Len(RankedCandidates)
         /\ contexts = SubSeq(RankedCandidates, 1, n)
         /\ n < Len(RankedCandidates) =>
              SumTokens(contexts) + RankedCandidates[n + 1].token_count > rt_max_tokens

\* C34: the list get_l1_contexts returns is a prefix of the L1 items in
\* newest-first order, the list retrieve_from_level returns is a prefix of
\* the search results in the order the search gave them; the prefix ends at
\* the first item whose tokens would exceed the allocation of the read, so
\* the tokens of the list sum to at most that allocation
ReadSource ==
    IF rd.level = "Immediate"
      THEN [i \in 1..Len(rd.order) |-> rd.order[i][1]]
      ELSE [i \in 1..Len(rd.results) |-> rd.results[i][1]]
ReadTokens(n) == SumTokens([i \in 1..n |-> [token_count |-> rt_tokens[ReadSource[i]]]])
C34_TokenBoundedPrefix ==
    rd.pc = "returned" =>
      LET n == Len(rd.contexts)
      IN /\ n <= Len(ReadSource)
         /\ \A i \in 1..n : rd.contexts[i].id = ReadSource[i]
         /\ ReadTokens(n) <= rd.max_tokens
         /\ SumTokens(rd.contexts) <= rd.max_tokens
         /\ n < Len(ReadSource) => ReadTokens(n + 1) > rd.max_tokens
         /\ rd.level = "Immediate" =>
              \A i \in 1..(n - 1) : rd.contexts[i].timestamp >= rd.contexts[i + 1].timestamp
         /\ rd.level # "Immediate" =>
              \A i \in 1..(n - 1) :
                 rd.contexts[i].relevance_score >= rd.contexts[i + 1].relevance_score
\* a read that returned some of the items and stopped before one that did
\* not fit
C34_Witness ==
    /\ rd.pc = "returned"
    /\ rd.level # "Immediate"
    /\ Len(rd.contexts) = 1
    /\ Len(rd.results) = 2

(***************************************************************************)
(* Claims about the validation of requests                                 *)
(***************************************************************************)
\* a text the validator must refuse: empty or blank, longer than
\* MAX_TEXT_LENGTH bytes, or holding a control character that is not white space
InvalidText(text) ==
    \/ \A i \in 1..Len(text) : text[i] = "space"
    \/ Len(text) > MAX_TEXT_LENGTH
    \/ \E i \in 1..Len(text) : text[i] = "control"

\* C29: on HiRAGManagerV2, store_context with an invalid text and
\* retrieve_context with an invalid query, with max_tokens = 0 or with
\* max_tokens above the cap return a Validation error (EmptyInput for the
\* empty text) in their first step, which makes no embedding request, calls no
\* vector store and leaves the L1 cache as it is
C29_ValidationShortCircuits ==
    [][/\ mgr'[1] # mgr[1] /\ mgr'[1].op = "store" /\ InvalidText(mgr'[1].text) =>
            /\ mgr[1].pc = "idle" /\ mgr'[1].pc = "idle"
            /\ mgr'[1].res = "validation_error"
            /\ mgr'[1].validation \in {"EmptyInput", "TextTooLong", "InvalidCharacters"}
            /\ mgr'[1].text = <<>> => mgr'[1].validation = "EmptyInput"
            /\ mgr'[1].embed_requests = 0
            /\ ~mgr'[1].inserted /\ ~mgr'[1].touched
            /\ UNCHANGED <<points, l1_cache, l1_cache_size, coll_exists, next_id>>
       /\ /\ rt_manager = "HiRAGManagerV2" /\ rt_pc = "called" /\ rt_pc' # "called"
          /\ \/ InvalidText(rt_query)
             \/ rt_max_tokens = 0
             \/ rt_max_tokens > TokenCountCap
          => /\ rt_pc' = "done"
             /\ rt_res' = "validation_error"
             /\ rt_embed_requests' = 0
             /\ rt_tasks' = <<>> /\ rt_searched' = 0 /\ rt_cache_hits' = 0
             /\ UNCHANGED <<points, l1_cache, l1_cache_size, coll_exists>>]_vars

\* store_context("", Immediate, {}) has returned the Validation error EmptyInput
C29_Witness ==
    /\ mgr[1].op = "store" /\ mgr[1].pc = "idle"
    /\ mgr[1].text = <<>> /\ mgr[1].level = "Immediate"
    /\ mgr[1].res = "validation_error" /\ mgr[1].validation = "EmptyInput"

\* C35: the delay slept before retry k of an embedding request is
\* base * 2^(k-1) ms, capped at 30 000 ms, before jitter, with a base of at
\* least 500 ms after a 429; with its jitter no delay exceeds the cap by
\* more than 25%; the base is any the code uses, 100 * 2^attempts being
\* 200 * 2^(attempts - 1)
BackoffCap == 30000
BackoffBases == {100, 200, 500, 1000}
C35_BackoffArithmetic ==
    bo.pc = "sleep" =>
      /\ \E base \in BackoffBases :
           /\ bo.failure = "rate_limited" => base >= 500
           /\ bo.backoff = Min(base * Pow2(bo.attempts - 1), BackoffCap)
      /\ bo.delay * 100 <= BackoffCap * 125

(***************************************************************************)
(* Claims about the ranker                                                 *)
(***************************************************************************)
\* C31: in the list rank_contexts returns, of two contexts of equal composite
\* score the one with the larger timestamp comes first
C31_TieBreak ==
    rank.pc = "done" =>
        \A i, j \in 1..Len(rank.ranked) :
            /\ i < j
            /\ rank.ranked[i].relevance_score = rank.ranked[j].relevance_score
            => rank.ranked[i].timestamp >= rank.ranked[j].timestamp

(***************************************************************************)
(* Claims about the shutdown                                               *)
(***************************************************************************)
\* C32: once shutdown() has been called, every task that waits on a notifier
\* eventually returns from wait()
C32_ShutdownNotifies ==
    \A t \in Subscribers : (sd.calls > 0) ~> (sd.task[t] = "returned")

(***************************************************************************)
(* Claims about the garbage collection                                     *)
(***************************************************************************)
\* a step of the GC cycle that issues delete_points
GCDeletes == gc.pc = "delete" /\ gc' # gc

\* C26: whatever the interleaving with store_context and update_context, a
\* point that a step of the GC deletes has, at that step, a timestamp of at
\* most now - ttl of its tier
C26_DeletesOnlyExpired ==
    [][GCDeletes =>
         \A i \in Ids :
             points[gc.level][i] # Absent /\ points'[gc.level][i] = Absent =>
                 points[gc.level][i] <= wall - Ttl(gc.level)]_vars

\* C27: while the periodic task runs and the vector store answers, a point of
\* the ShortTerm or of the LongTerm collection whose timestamp is at most
\* now - ttl of its tier is eventually deleted
C27_ExpiredEventuallyDeleted ==
    \A l \in {"ShortTerm", "LongTerm"} : \A i \in Ids :
        (points[l][i] # Absent /\ points[l][i] <= wall - Ttl(l))
            ~> (points[l][i] = Absent)

\* the ids whose point in the collection of the level a step removes
GCRemoved(level) == {i \in Ids : points[level][i] # Absent /\ points'[level][i] = Absent}

\* C28: a step of a GC cycle leaves the L1 cache, its counter and the points
\* of every collection other than the one being collected as they are, the
\* Immediate collection among them; what it changes in the collection it
\* collects is the removal of ids that its search returned, at most BATCH_SIZE
\* of them per delete_points request
C28_GCFrame ==
    [][gc' # gc =>
         /\ l1_cache' = l1_cache
         /\ l1_cache_size' = l1_cache_size
         /\ gc.level # "Immediate"
         /\ \A l \in LevelSet \ {gc.level} : points'[l] = points[l]
         /\ \A i \in Ids : points'[gc.level][i] # points[gc.level][i] =>
                /\ gc.pc = "delete"
                /\ i \in GCRemoved(gc.level)
                /\ i \in Range(gc.ids)
         /\ Cardinality(GCRemoved(gc.level)) <= BATCH_SIZE]_vars

\* a cycle has deleted a first chunk and has ids left, while the L1 cache and
\* the Immediate collection hold an item
C28_Witness ==
    /\ gc.pc = "delete"
    /\ gc.deleted_total >= BATCH_SIZE
    /\ L1Len > 0
    /\ \E i \in Ids : points["Immediate"][i] # Absent

(***************************************************************************)
(* Claims about the embedding clients                                      *)
(***************************************************************************)
\* C12: with the breaker attached to EmbeddingClientV2, once three attempts in
\* a row have failed (transport error or a status that is not a success) and
\* the breaker has recorded the last of them, the breaker is Open
C12_FailuresOpenBreaker ==
    emb_breaker /\ emb_pc = "decide" /\ emb_failed_run >= failure_threshold
        => state = "Open"

\* C13: with the cache on, an embed_single of a text that an earlier
\* embed_single returned a vector for, whose cache entry has not been dropped
\* since, sends no request to the API and returns that vector
C13_CacheTransparency ==
    emb_hit_expected =>
        /\ emb_sent = 0
        /\ emb_res = "ok" => emb_out = <<Embedding(emb_texts[1])>>

\* C14: a request makes at most max_retries + 1 attempts, and when every
\* attempt has failed it returns an error, the one of the last attempt, and
\* does not panic, for max_retries = 0 as well
C14_BoundedRetry ==
    /\ emb_attempts <= emb_max_retries + 1
    /\ emb_pc = "done" => emb_res # "panic: unwrap on None"
    /\ emb_pc = "done" /\ emb_res \in {"NetworkError", "RateLimitExceeded",
                                       "AuthenticationFailed"}
          => emb_res = IF emb_client = "EmbeddingClient"
                         THEN TryRequestError(emb_outcome)
                         ELSE IF emb_outcome = "unauthorized" THEN "AuthenticationFailed"
                         ELSE GiveUpError(emb_outcome)

\* C15: an attempt answered with HTTP 401 ends the request with
\* AuthenticationFailed, no attempt is sent after it, and the breaker's state
\* and failure count are what they were when that attempt was sent
C15_AuthenticationFailure ==
    /\ ~emb_after_401
    /\ emb_pc = "done" /\ emb_outcome = "unauthorized"
          => emb_res = "AuthenticationFailed"
    /\ emb_breaker /\ emb_pc = "done" /\ emb_res = "AuthenticationFailed"
          => <<state, failure_count>> = emb_before

\* C16: an embed_batch of 1..batch_size texts that returns Ok returns one
\* vector per text, the i-th the embedding of the i-th text, whatever the
\* cache holds and however many embeddings the response carries; a response
\* with too many embeddings does not crash the call
C16_BatchShape ==
    emb_op = "embed_batch" /\ emb_pc = "done"
        /\ 1 <= Len(emb_texts) /\ Len(emb_texts) <= emb_batch_size
        => /\ emb_res # "panic: index out of bounds"
           /\ emb_res = "ok"
                => emb_out = [i \in 1..Len(emb_texts) |-> Embedding(emb_texts[i])]

\* C36: EmbeddingClientV2 sends no attempt, first or retry, at a moment when
\* its breaker is Open and less than the breaker's timeout has passed since
\* it opened
C36_NoSendWhileOpen ==
    [][emb_breaker /\ emb_pc = "send" /\ emb_sent' = emb_sent + 1
         => ~(state = "Open" /\ opened_at # NoTime /\ now - opened_at < OpenTimeout)]_vars

\* C37: while EmbeddingClientV2 reports to its breaker an attempt that ended
\* with a status that is not a success or with a body that does not parse,
\* the breaker's failure count is not reset in Closed, its success count
\* does not grow and it does not go from HalfOpen to Closed
FailedAttemptReported ==
    /\ emb_breaker
    /\ emb_outcome \in Outcomes \ {"ok", "none"}
    /\ emb_pc \in {"record_success", "success_recorded", "record_failure",
                   "failure_recorded"}
C37_FailureNotCountedAsSuccess ==
    [][FailedAttemptReported =>
         /\ state = "Closed" => failure_count' >= failure_count
         /\ success_count' <= success_count
         /\ ~(state = "HalfOpen" /\ state' = "Closed")]_vars

====
